---- MODULE Spec2Model ----
(***************************************************************************)
(* Validator console: one page (its TransactionOutcome and its status      *)
(* notice) and the submissions it has in flight, each running              *)
(*   signer adapter -> builder -> estimateGas -> signAndBroadcast ->       *)
(*   inspect broadcastResponse.txResult -> wait -> final code -> page.     *)
(* One action is the code between two awaits of the handler.               *)
(***************************************************************************)
EXTENDS Integers, Sequences, FiniteSets, TLC

\* ---- bounds of the model ------------------------------------------------
\* handler invocations that have not returned yet
MaxInFlight == 1
\* the largest gasUsed a simulation reports
MaxGasUsed == 3
\* setTimeout(onDismiss, 300) timers that have not fired yet
MaxPendingDismiss == 1
\* the waiting window of result.wait is observed at this many points after
\* its start: one step of the clock stands for a run of unsuccessful polls
ClockSteps == 2

\* ---- program constants --------------------------------------------------
GAS_MULTIPLIER_PERCENT == 150
FallbackGas == 500000
LegacyGas == 200000
WaitTimeoutMs == 60000
PollIntervalMs == 2000

Slots == 1..MaxInFlight

\* ---- strings --------------------------------------------------------------
\* String.prototype.includes
Includes(msg, marker) ==
  \E i \in 1..(Len(msg) - Len(marker) + 1) :
     SubSeq(msg, i, i + Len(marker) - 1) = marker

\* a || b on strings (the empty string is falsy)
OrElse(a, b) == IF a # "" THEN a ELSE b

DigitChars == {"0", "1", "2", "3", "4", "5", "6", "7", "8", "9"}

DigitValue ==
  ("0" :> 0) @@ ("1" :> 1) @@ ("2" :> 2) @@ ("3" :> 3) @@ ("4" :> 4) @@
  ("5" :> 5) @@ ("6" :> 6) @@ ("7" :> 7) @@ ("8" :> 8) @@ ("9" :> 9)

CharAt(str, i) == SubSeq(str, i, i)

\* length of the run of decimal digits of str that starts at position i
RECURSIVE DigitRun(_, _)
DigitRun(str, i) ==
  IF i <= Len(str) /\ CharAt(str, i) \in DigitChars
    THEN 1 + DigitRun(str, i + 1)
    ELSE 0

\* value of the decimal digits str[i .. i+n-1]
RECURSIVE DigitsValue(_, _, _)
DigitsValue(str, i, n) ==
  IF n = 0 THEN 0
  ELSE 10 * DigitsValue(str, i, n - 1) + DigitValue[CharAt(str, i + n - 1)]

RECURSIVE Pow10(_)
Pow10(n) == IF n = 0 THEN 1 ELSE 10 * Pow10(n - 1)

\* a parsed number: NaN, or a value in thousandths
NaN == [isNaN |-> TRUE, value |-> 0]

isNaN(num) == num.isNaN

\* parseFloat on a decimal literal: optional sign, digits, optional
\* fraction; the longest valid prefix is parsed and the rest ignored.
\* The value is kept in thousandths (form amounts carry at most three
\* fractional digits); NaN when no digit is found.
ParseFloat(str) ==
  LET neg   == Len(str) >= 1 /\ CharAt(str, 1) = "-"
      start == IF Len(str) >= 1 /\ CharAt(str, 1) \in {"-", "+"} THEN 2 ELSE 1
      ni    == DigitRun(str, start)
      dot   == start + ni
      hasDot == dot <= Len(str) /\ CharAt(str, dot) = "."
      nf    == IF hasDot THEN DigitRun(str, dot + 1) ELSE 0
      kept  == IF nf > 3 THEN 3 ELSE nf
      mag   == DigitsValue(str, start, ni) * 1000
               + DigitsValue(str, dot + 1, kept) * Pow10(3 - kept)
  IN IF ni + nf = 0 THEN NaN
     ELSE [isNaN |-> FALSE, value |-> IF neg THEN 0 - mag ELSE mag]

\* /^\d+$/.test(str)
AllDigits(str) == Len(str) >= 1 /\ DigitRun(str, 1) = Len(str)

\* str.split('.') : the pieces between the dots
RECURSIVE SplitDot(_, _, _)
SplitDot(str, i, from) ==
  IF i > Len(str) THEN << SubSeq(str, from, Len(str)) >>
  ELSE IF CharAt(str, i) = "."
    THEN << SubSeq(str, from, i - 1) >> \o SplitDot(str, i + 1, i + 1)
    ELSE SplitDot(str, i + 1, from)


\* str.trim(), for the blanks a form field can carry
RECURSIVE TrimLeft(_)
TrimLeft(str) ==
  IF Len(str) >= 1 /\ CharAt(str, 1) = " "
    THEN TrimLeft(SubSeq(str, 2, Len(str))) ELSE str

RECURSIVE TrimRight(_)
TrimRight(str) ==
  IF Len(str) >= 1 /\ CharAt(str, Len(str)) = " "
    THEN TrimRight(SubSeq(str, 1, Len(str) - 1)) ELSE str

Trim(str) == TrimRight(TrimLeft(str))

\* ---- errors ---------------------------------------------------------------
\* An error object: its message, and the fields the classifier and the page
\* read from it (code, a transaction hash carried by the object, a nested
\* detail message, a raw log).  "" stands for undefined.
NewError(m) ==
  [message |-> m, code |-> "", txHash |-> "", detail |-> "", rawLog |-> ""]

rpcErrorIndicators == {"RPC Error", "Internal error"}

isRpcErrorMessage(message) ==
  \E indicator \in rpcErrorIndicators : Includes(message, indicator)

HashHexLen == 64

HexChars ==
  DigitChars \cup {"a", "b", "c", "d", "e", "f", "A", "B", "C", "D", "E", "F"}

IsHexRun(msg, i, n) ==
  /\ i + n - 1 <= Len(msg)
  /\ \A k \in i..(i + n - 1) : CharAt(msg, k) \in HexChars

\* rawMessage.match(/0x[a-fA-F0-9]{64}/)?.[0]
MatchHex0x(msg) ==
  LET at == {i \in 1..Len(msg) :
               /\ i + 1 <= Len(msg)
               /\ SubSeq(msg, i, i + 1) = "0x"
               /\ IsHexRun(msg, i + 2, HashHexLen)}
  IN IF at = {} THEN ""
     ELSE LET i == CHOOSE j \in at : \A k \in at : j <= k
          IN SubSeq(msg, i, i + 1 + HashHexLen)

\* rawMessage.match(/[a-fA-F0-9]{64}/)?.[0]
MatchHex(msg) ==
  LET at == {i \in 1..Len(msg) : IsHexRun(msg, i, HashHexLen)}
  IN IF at = {} THEN ""
     ELSE LET i == CHOOSE j \in at : \A k \in at : j <= k
          IN SubSeq(msg, i, i + HashHexLen - 1)

\* details taken from the message text alone
extractRpcErrorDetailsFromText(error, fallbackMessage, rawMessage) ==
  [detailedError |-> fallbackMessage,
   code          |-> "",
   txHash        |-> OrElse(MatchHex0x(rawMessage), MatchHex(rawMessage))]

extractRpcErrorDetails(error, fallbackMessage, rawMessage) ==
  [detailedError |-> OrElse(error.detail, fallbackMessage),
   code          |-> error.code,
   txHash        |-> OrElse(MatchHex0x(rawMessage),
                      OrElse(MatchHex(rawMessage), error.txHash))]

buildRpcErrorMessage(error, errorMsg) ==
  LET d == extractRpcErrorDetails(error, errorMsg, errorMsg)
  IN IF d.txHash # ""
       THEN "Transaction signed and broadcast, but RPC returned an error. "
            \o "Transaction hash: " \o d.txHash \o ". "
            \o "Please check your wallet or explorer to confirm the transaction status. "
            \o "Error: " \o d.detailedError
       ELSE "RPC endpoint error during broadcast. "
            \o "The transaction may have been signed successfully. "
            \o "Please check your wallet transaction history or try again. "
            \o "Error: " \o d.detailedError \o " "
            \o "(Code: " \o OrElse(d.code, "unknown") \o ")"

RejectedMessage ==
  "Transaction was rejected. Please approve the transaction in your wallet."

\* The catch block of each transaction function: its categories in the
\* order the code tests them, each a set of markers and the message thrown.
Categories(kind) ==
  << [class   |-> "rejection",
      markers |-> {"Request rejected", "User rejected"},
      message |-> RejectedMessage] >> \o
  CASE kind = "createValidator" ->
         << [class   |-> "funds", markers |-> {"insufficient funds"},
             message |-> "Insufficient balance. Please ensure you have enough INJ for self-delegation and transaction fees."],
            [class   |-> "specific", markers |-> {"validator already exists"},
             message |-> "A validator with this operator address already exists."],
            [class   |-> "specific", markers |-> {"invalid pubkey"},
             message |-> "Invalid consensus pubkey format. Please verify the pubkey is correct."] >>
    [] kind = "delegate" ->
         << [class   |-> "funds", markers |-> {"insufficient funds"},
             message |-> "Insufficient balance. Please ensure you have enough INJ for delegation and transaction fees."],
            [class   |-> "specific", markers |-> {"validator not found"},
             message |-> "Validator not found. Please verify the validator address is correct."] >>
    [] kind = "undelegate" ->
         << [class   |-> "funds", markers |-> {"insufficient funds"},
             message |-> "Insufficient balance. Please ensure you have enough INJ for transaction fees."],
            [class   |-> "specific", markers |-> {"insufficient delegation"},
             message |-> "Insufficient delegation. You cannot undelegate more than you have delegated."],
            [class   |-> "specific", markers |-> {"validator not found"},
             message |-> "Validator not found. Please verify the validator address is correct."] >>
    [] kind = "unjail" ->
         << [class   |-> "funds", markers |-> {"insufficient funds"},
             message |-> "Insufficient balance. Please ensure you have enough INJ for transaction fees."],
            [class   |-> "specific", markers |-> {"validator not found"},
             message |-> "Validator not found. Please verify the validator address is correct."],
            [class   |-> "specific", markers |-> {"validator is not jailed"},
             message |-> "Validator is not jailed. Unjail is only available for jailed validators."] >>
    [] kind = "registerOrchestrator" ->
         << [class   |-> "funds", markers |-> {"insufficient funds"},
             message |-> "Insufficient balance. Please ensure you have enough INJ for transaction fees."],
            [class   |-> "specific", markers |-> {"orchestrator address already set"},
             message |-> "Orchestrator address has already been registered and cannot be changed."],
            [class   |-> "unauthorized", markers |-> {"unauthorized"},
             message |-> "You are not authorized to register orchestrator for this validator."] >>
    [] kind = "editValidator" ->
         << [class   |-> "funds", markers |-> {"insufficient funds"},
             message |-> "Insufficient balance. Please ensure you have enough INJ for transaction fees."],
            [class   |-> "specific", markers |-> {"commission rate change too high"},
             message |-> "Commission rate change exceeds the maximum allowed change rate."],
            [class   |-> "unauthorized", markers |-> {"unauthorized"},
             message |-> "You are not authorized to edit this validator."] >>

CategoryMatches(cat, errorMsg) ==
  \E marker \in cat.markers : Includes(errorMsg, marker)

\* a catch block that tests the RPC markers before its categories
ClassifyRpcFirst(kind, error) ==
  LET errorMsg == OrElse(error.message, "Error")
      cats     == Categories(kind)
      hits     == {i \in 1..Len(cats) : CategoryMatches(cats[i], errorMsg)}
  IN IF isRpcErrorMessage(errorMsg)
       THEN NewError(buildRpcErrorMessage(error, errorMsg))
     ELSE IF hits # {}
       THEN NewError(cats[CHOOSE i \in hits : \A j \in hits : i <= j].message)
     ELSE error

\* The error a transaction function throws for an error caught in its body.
Classify(kind, error) ==
  LET errorMsg == OrElse(error.message, "Error")
      cats     == Categories(kind)
      hits     == {i \in 1..Len(cats) : CategoryMatches(cats[i], errorMsg)}
  IN IF hits # {}
       THEN NewError(cats[CHOOSE i \in hits : \A j \in hits : i <= j].message)
     ELSE IF isRpcErrorMessage(errorMsg)
       THEN NewError(buildRpcErrorMessage(error, errorMsg))
     ELSE error


\* ---- form data and its schema ------------------------------------------------
Base64Alphabet ==
  "ABCDEFGHIJKLMNOPQRSTUVWXYZabcdefghijklmnopqrstuvwxyz0123456789+/"

Base64Chars == {CharAt(Base64Alphabet, i) : i \in 1..Len(Base64Alphabet)}

\* a decoder that counts three bytes for every four characters, padding
\* included
AtobLengthOfQuads(str) == (Len(str) \div 4) * 3

\* atob(str).length, or -1 when atob throws: trailing padding is dropped,
\* every other character must be of the alphabet, and a length of 1 modulo 4
\* cannot be decoded.
AtobLength(str) ==
  LET pad  == IF Len(str) >= 2 /\ SubSeq(str, Len(str) - 1, Len(str)) = "=="
                THEN 2
              ELSE IF Len(str) >= 1 /\ CharAt(str, Len(str)) = "=" THEN 1
              ELSE 0
      n    == Len(str) - pad
  IN IF (pad > 0 /\ Len(str) % 4 # 0)
        \/ (\E i \in 1..n : CharAt(str, i) \notin Base64Chars)
        \/ n % 4 = 1
       THEN -1
       ELSE (n * 6) \div 8

isValidEd25519Pubkey(pubkey) ==
  LET cleaned == Trim(pubkey)
  IN /\ ~(Len(cleaned) < 43 \/ Len(cleaned) > 44)
     /\ AtobLength(cleaned) = 32

amountSchema(val) ==
  LET num == ParseFloat(val) IN ~isNaN(num) /\ num.value > 0

commissionRateSchema(val) ==
  LET num == ParseFloat(val)
  IN ~isNaN(num) /\ num.value >= 0 /\ num.value <= 100 * 1000

validatorRegistrationSchema(data) ==
  /\ isValidEd25519Pubkey(data.consensusPubkey)
  /\ commissionRateSchema(data.commissionRate)
  /\ commissionRateSchema(data.maxCommissionRate)
  /\ commissionRateSchema(data.maxCommissionChangeRate)
  /\ amountSchema(data.minSelfDelegation)
  /\ amountSchema(data.selfDelegation)

delegationSchema(data) == amountSchema(data.amount)

\* zodResolver: the form calls onSubmit only with data its schema accepts
SchemaAccepts(kind, data) ==
  CASE kind = "createValidator" -> validatorRegistrationSchema(data)
    [] kind \in {"delegate", "undelegate"} -> delegationSchema(data)
    [] kind = "unjail" -> TRUE

\* The form data the user can enter.
Pubkey32 == "AAAAAAAAAAAAAAAAAAAAAAAAAAAAAAAAAAAAAAAAAAA="
Pubkey33 == "AAAAAAAAAAAAAAAAAAAAAAAAAAAAAAAAAAAAAAAAAAAA"

RegistrationForm(pk, rate, minSelf, self) ==
  [consensusPubkey |-> pk, commissionRate |-> rate,
   maxCommissionRate |-> "20", maxCommissionChangeRate |-> "1",
   minSelfDelegation |-> minSelf, selfDelegation |-> self]

RegistrationForms ==
  { RegistrationForm(Pubkey32, "10.5", "1", "2.5"),
    RegistrationForm(Pubkey32, "10.5", "1", "0.999"),
    RegistrationForm(Pubkey32, "10abc", "1", "2.5"),
    RegistrationForm(Pubkey33, "10.5", "1", "2.5"),
    RegistrationForm(Pubkey32, "10.5", "1", "0") }

DelegationForms == { [amount |-> "2.5"], [amount |-> "0"], [amount |-> "abc"] }

NoForm == [none |-> TRUE]

Forms(kind) ==
  CASE kind = "createValidator" -> RegistrationForms
    [] kind \in {"delegate", "undelegate"} -> DelegationForms
    [] kind = "unjail" -> {NoForm}

\* ---- builders ------------------------------------------------------------------
\* decimalStringToScaled throws (the scaled value is not needed here)
decimalStringToScaledThrows(value) ==
  LET normalized == Trim(value)
      parts      == SplitDot(normalized, 1, 1)
      integerPart    == parts[1]
      fractionalPart == IF Len(parts) >= 2 THEN parts[2] ELSE ""
  IN /\ normalized # ""
     /\ \/ ~AllDigits(integerPart)
        \/ (fractionalPart # "" /\ ~AllDigits(fractionalPart))

percentStringToDecimalThrows(value) ==
  Trim(value) = "" \/ decimalStringToScaledThrows(Trim(value))

\* '0'.repeat(n)
RECURSIVE Zeros(_)
Zeros(n) == IF n <= 0 THEN "" ELSE "0" \o Zeros(n - 1)

\* A non-negative bigint is kept as its decimal digits without leading
\* zeros (BigInt(str) of a digit string; "0" for zero and for '').
RECURSIVE BigInt(_)
BigInt(digits) ==
  IF digits = "" THEN "0"
  ELSE IF Len(digits) > 1 /\ CharAt(digits, 1) = "0"
    THEN BigInt(SubSeq(digits, 2, Len(digits)))
  ELSE digits

\* decimalStringToScaled where it does not throw:
\* BigInt(integerPart) * 10n ** scale + BigInt(paddedFraction) has the digits
\* of integerPart followed by the scale digits of paddedFraction
decimalStringToScaled(value, scale) ==
  LET normalized == Trim(value)
      parts      == SplitDot(normalized, 1, 1)
      integerPart    == parts[1]
      fractionalPart == IF Len(parts) >= 2 THEN parts[2] ELSE ""
      paddedFraction == SubSeq(fractionalPart \o Zeros(scale), 1, scale)
  IN IF normalized = "" THEN "0"
     ELSE BigInt(integerPart \o paddedFraction)

\* formatScaledDecimal of a non-negative value (no caller passes a negative
\* one: the digit test has refused a sign)
formatScaledDecimal(value, scale) ==
  LET digits == IF Len(value) <= scale
                  THEN Zeros(scale + 1 - Len(value)) \o value ELSE value
      integerPart      == SubSeq(digits, 1, Len(digits) - scale)
      fractionalString == SubSeq(digits, Len(digits) - scale + 1, Len(digits))
  IN integerPart \o "." \o fractionalString

\* a normalisation that returns the text as it came
normalizeDecimalStringAsIs(value, scale) == value

normalizeDecimalString(value, scale) ==
  formatScaledDecimal(decimalStringToScaled(value, scale), scale)

\* a division that rounds the last digit up when the remainder is not zero
DivideBy100Up(value) ==
  LET digits == Zeros(3 - Len(value)) \o value
      q      == SubSeq(digits, 1, Len(digits) - 2)
      last   == DigitValue[CharAt(q, Len(q))]
  IN IF SubSeq(digits, Len(digits) - 1, Len(digits)) = "00" \/ last = 9
       THEN BigInt(q)
     ELSE BigInt(SubSeq(q, 1, Len(q) - 1) \o ToString(last + 1))

\* value / 100n on non-negative bigints: the last two digits are dropped
DivideBy100(value) ==
  IF Len(value) <= 2 THEN "0" ELSE SubSeq(value, 1, Len(value) - 2)

\* percentStringToDecimal: the error thrown, or the ratio returned
percentStringToDecimal(value) ==
  LET normalized == Trim(value)
  IN IF percentStringToDecimalThrows(value)
       THEN [threw |-> TRUE, value |-> "Commission rate must be between 0 and 100%"]
     ELSE [threw |-> FALSE,
           value |-> formatScaledDecimal(
                       DivideBy100(decimalStringToScaled(normalized, 18)), 18)]

\* The start of editValidatorTransaction, up to the message it builds.  An
\* optional string is << >> when undefined, << text >> otherwise.  The result
\* is the error thrown, or the message with its optional commissionRate.
\* (parseFloat skips leading blanks; the rates used keep within its
\* thousandths.)
editValidatorMessage(rate, currentCommissionRate) ==
  LET threw       == [threw |-> TRUE, commissionRate |-> << >>]
      ratePercent == ParseFloat(TrimLeft(rate[1]))
      converted   == percentStringToDecimal(rate[1])
      current     == IF currentCommissionRate = << >>
                       THEN "" ELSE currentCommissionRate[1]
  IN IF rate = << >> THEN [threw |-> FALSE, commissionRate |-> << >>]
     ELSE IF isNaN(ratePercent) \/ ratePercent.value < 0
             \/ ratePercent.value > 100 * 1000
       THEN threw
     ELSE IF converted.threw THEN threw
     ELSE IF current # "" /\ decimalStringToScaledThrows(current) THEN threw
     ELSE IF current # "" /\ normalizeDecimalString(current, 18) = converted.value
       THEN [threw |-> FALSE, commissionRate |-> << >>]
     ELSE [threw |-> FALSE, commissionRate |-> << converted.value >>]

\* an encoder that writes every field, an absent rate as zero
EncodeEditValidatorEveryField(message) ==
  << [field |-> 1, value |-> "description"],
     [field |-> 2, value |-> message.validatorAddress],
     [field |-> 3, value |-> IF message.commissionRate \in {<< >>, << "" >>}
                               THEN "0"
                             ELSE decimalStringToScaled(message.commissionRate[1], 18)] >>

\* The encode function registered for MsgEditValidator: the fields it writes,
\* in order.  Decimal.fromUserInput(rate, 18).atomics is the rate's digits
\* scaled by 10^18, as decimalStringToScaled computes them.
EncodeEditValidator(message) ==
  LET present(opt) == opt # << >> /\ opt[1] # ""
  IN (IF message.description
        THEN << [field |-> 1, value |-> "description"] >> ELSE << >>)
     \o (IF message.validatorAddress # ""
          THEN << [field |-> 2, value |-> message.validatorAddress] >> ELSE << >>)
     \o (IF present(message.commissionRate)
          THEN << [field |-> 3,
                   value |-> decimalStringToScaled(message.commissionRate[1], 18)] >>
          ELSE << >>)
     \o (IF present(message.minSelfDelegation)
          THEN << [field |-> 4, value |-> message.minSelfDelegation[1]] >> ELSE << >>)

\* Math.floor(parseFloat(text) * 1e18).toString() for the amounts drawn below
\* (2.5, 0.5, 1000, ...), on which the double product prints as the decimal
\* product: the digits parseFloat reads, scaled by 10^18 and cut, written by
\* Number.prototype.toString, which switches to exponent notation from 1e21.
amountToBase(text) ==
  LET ni     == DigitRun(text, 1)
      hasDot == ni + 1 <= Len(text) /\ CharAt(text, ni + 1) = "."
      nf     == IF hasDot THEN DigitRun(text, ni + 2) ELSE 0
      frac   == SubSeq(SubSeq(text, ni + 2, ni + 1 + nf) \o Zeros(18), 1, 18)
      floor  == BigInt(SubSeq(text, 1, ni) \o frac)
      digits == LET RECURSIVE strip(_)
                    strip(d) == IF Len(d) >= 1 /\ CharAt(d, Len(d)) = "0"
                                  THEN strip(SubSeq(d, 1, Len(d) - 1)) ELSE d
                IN strip(SubSeq(floor, 2, Len(floor)))
  IN IF Len(floor) <= 21 THEN floor
     ELSE CharAt(floor, 1) \o (IF digits = "" THEN "" ELSE "." \o digits)
          \o "e+" \o ToString(Len(floor) - 1)

\* /^0x[a-fA-F0-9]{40}$/.test(address)
isValidEthereumAddress(address) ==
  /\ Len(address) = 42
  /\ SubSeq(address, 1, 2) = "0x"
  /\ IsHexRun(address, 3, 40)

\* fromBech32(address) succeeds and decoded.prefix = prefix: lower-case text
\* "<prefix>1<data>", the data (checksum of six included) in the bech32
\* alphabet.  The checksum sum itself is not computed: the addresses drawn
\* below either carry a right one or fail on their form.
isValidBech32Address(address, prefix) ==
  LET alphabet == {"q", "p", "z", "r", "y", "9", "x", "8", "g", "f", "2", "t",
                   "v", "d", "w", "0", "s", "3", "j", "n", "5", "4", "k", "h",
                   "c", "e", "6", "m", "u", "a", "7", "l"}
      ones == {i \in 1..Len(address) : CharAt(address, i) = "1"}
      sep  == IF ones = {} THEN 0 ELSE CHOOSE i \in ones : \A j \in ones : j <= i
  IN /\ sep >= 2
     /\ Len(address) - sep >= 6
     /\ \A i \in (sep + 1)..Len(address) : CharAt(address, i) \in alphabet
     /\ SubSeq(address, 1, sep - 1) = prefix

\* formatTokenAmount(amount, decimals, displayDecimals): the text shown, or
\* threw when BigInt refuses the amount
formatTokenAmount(amount, decimals, displayDecimals) ==
  LET parts     == SplitDot(Trim(amount), 1, 1)
      amountStr == parts[1]
      padded    == Zeros(decimals) \o BigInt(amountStr)
      integerPart   == BigInt(SubSeq(padded, 1, Len(padded) - decimals))
      fractionalStr == SubSeq(padded, Len(padded) - decimals + 1, Len(padded))
      nonZero == {i \in 1..decimals : CharAt(fractionalStr, i) # "0"}
      \* fractionalStr.search(/[1-9]/), counted from 0
      firstNonZeroIndex == (CHOOSE i \in nonZero : \A j \in nonZero : i <= j) - 1
      endIndex == IF firstNonZeroIndex + displayDecimals < decimals
                    THEN firstNonZeroIndex + displayDecimals ELSE decimals
      displayFractional == SubSeq(fractionalStr, firstNonZeroIndex + 1, endIndex)
      RECURSIVE dropZeros(_)
      dropZeros(d) == IF Len(d) >= 1 /\ CharAt(d, Len(d)) = "0"
                        THEN dropZeros(SubSeq(d, 1, Len(d) - 1)) ELSE d
      trimmedFractional ==
        IF dropZeros(displayFractional) # "" THEN dropZeros(displayFractional)
        ELSE SubSeq(displayFractional, 1, 1)
  IN IF amount = "" \/ amount = "0" THEN [threw |-> FALSE, text |-> "0"]
     ELSE IF ~AllDigits(amountStr) /\ amountStr # ""
       THEN [threw |-> TRUE, text |-> ""]
     ELSE IF nonZero = {} THEN [threw |-> FALSE, text |-> integerPart]
     ELSE IF trimmedFractional = "" THEN [threw |-> FALSE, text |-> integerPart]
     ELSE [threw |-> FALSE, text |-> integerPart \o "." \o trimmedFractional]

\* The validation a transaction function runs before its first await:
\* "" when the message is built, else the message of the error thrown.
BuilderError(kind, data) ==
  CASE kind = "createValidator" ->
         LET selfDelegationAmount    == ParseFloat(data.selfDelegation)
             minSelfDelegationAmount == ParseFloat(data.minSelfDelegation)
         IN IF AtobLength(data.consensusPubkey) # 32
              THEN "Failed to decode consensus pubkey. Please ensure it is valid base64-encoded ed25519 key."
            ELSE IF isNaN(selfDelegationAmount) \/ selfDelegationAmount.value <= 0
              THEN "Self delegation amount must be a positive number"
            ELSE IF isNaN(minSelfDelegationAmount)
                    \/ minSelfDelegationAmount.value <= 0
              THEN "Min self delegation must be a positive number"
            ELSE IF selfDelegationAmount.value < minSelfDelegationAmount.value
              THEN "Self delegation amount must be at least the minimum self delegation"
            ELSE IF \E r \in {data.commissionRate, data.maxCommissionRate,
                              data.maxCommissionChangeRate} :
                       percentStringToDecimalThrows(r)
              THEN "Commission rate must be between 0 and 100%"
            ELSE ""
    [] kind = "delegate" ->
         LET amount == ParseFloat(data.amount)
         IN IF isNaN(amount) \/ amount.value <= 0
              THEN "Delegation amount must be a positive number" ELSE ""
    [] kind = "undelegate" ->
         LET amount == ParseFloat(data.amount)
         IN IF isNaN(amount) \/ amount.value <= 0
              THEN "Undelegation amount must be a positive number" ELSE ""
    [] kind = "unjail" -> ""

\* ---- gas estimator ---------------------------------------------------------------
\* (variant: the product rounded up)
gasWithMultiplierCeil(estimatedGas) ==
  (estimatedGas * GAS_MULTIPLIER_PERCENT + 99) \div 100

\* estimateGas on a simulation that returned gasUsed
gasWithMultiplier(estimatedGas) ==
  (estimatedGas * GAS_MULTIPLIER_PERCENT) \div 100


\* ---- state -------------------------------------------------------------------------
VARIABLES
  page,          \* the page that is mounted
  controlShown,  \* the page renders its form / submit button
  txStatus,      \* the page's TransactionOutcome (useState<TxStatus>)
  notice,        \* the TransactionStatus component: isVisible, its timers
  subs,          \* the handler invocations in flight, one per slot
  unit           \* a function or component run on its own: its input and state

vars == << page, controlShown, txStatus, notice, subs, unit >>

\* no function is being called on its own
NoUnit == [fn |-> "none"]

CurrentPages == {"DelegationPage", "UnjailPage", "ValidatorRegistrationPage"}

\* src/pages/ValidatorRegistrationPage.tsx with the createValidatorTransaction
\* that broadcasts in 'async' mode
AsyncPage == "ValidatorRegistrationPageAsync"

Kinds(p) ==
  CASE p = "DelegationPage" -> {"delegate", "undelegate"}
    [] p = "UnjailPage" -> {"unjail"}
    [] p \in {"ValidatorRegistrationPage", AsyncPage} -> {"createValidator"}

\* the page passes onDismiss={() => setTxStatus({ status: 'idle' })}
HasOnDismiss(p) == p \in {"UnjailPage", "ValidatorRegistrationPage"}

\* the text a handler shows for an error without a message
FailText(kind) ==
  CASE kind = "delegate" -> "Failed to delegate"
    [] kind = "undelegate" -> "Failed to undelegate"
    [] kind = "unjail" -> "Failed to unjail validator"
    [] kind = "createValidator" -> "Error"

IdleStatus == [status |-> "idle", hash |-> "", error |-> "", rawLog |-> ""]
PendingStatus == [status |-> "pending", hash |-> "", error |-> "", rawLog |-> ""]
SuccessStatus(hash, rawLog) ==
  [status |-> "success", hash |-> hash, error |-> "", rawLog |-> rawLog]
ErrorStatus(message, rawLog) ==
  [status |-> "error", hash |-> "", error |-> message, rawLog |-> rawLog]

NoCalls == [status |-> 0, account |-> 0, simulate |-> 0, sign |-> 0, wait |-> 0]

NoTxResult == [present |-> FALSE, code |-> 0, log |-> ""]

IdleSub ==
  [pc |-> "idle", kind |-> "", form |-> NoForm,
   gasUsed |-> -1, gasFailed |-> "", feeGas |-> -1,
   hash |-> "", txResult |-> NoTxResult, elapsed |-> 0,
   waitError |-> "", final |-> -1, finalLog |-> "",
   failedAt |-> "", raised |-> "", outcome |-> "none", error |-> "",
   calls |-> NoCalls, stages |-> << >>]

\* ---- what the environment can answer ---------------------------------------------------
TxHashes == {"ABCD1234", ""}

ChainLogs == {"", "out of gas", "insufficient funds"}

ResultCodes == {0, 5}

Codespaces == {"", "sdk"}

TxResults ==
  {NoTxResult, [present |-> TRUE, code |-> 0, log |-> ""]}
  \cup {[present |-> TRUE, code |-> 5, log |-> l] : l \in ChainLogs}

\* the broadcastResponse of a 'commit' broadcast: a codespace comes with a
\* nonzero code
BroadcastResponses ==
  {r \in [hash : TxHashes, txResult : TxResults, codespace : Codespaces] :
     /\ r.txResult.code = 0 => r.codespace = ""
     /\ r.txResult.log # "" => r.codespace = "sdk"
     /\ r.txResult.code # 0 => r.hash # ""}

SignErrors ==
  { NewError("Request rejected"),
    NewError("account sequence mismatch"),
    [NewError("RPC Error: connection reset") EXCEPT !.txHash = "ABCD1234"],
    NewError("") }

SignerErrors == { NewError("Failed to fetch"), NewError("") }

TimeoutError == NewError("Transaction was not confirmed within the timeout")

PollErrors == { NewError("Internal error"), NewError("Failed to fetch") }

EstimateFailures == {"getAccount", "buildTxBody", "simulate"}


\* The errors the environment raises inside a transaction function, and
\* what the function's catch block throws for each: the catch block is
\* evaluated once per error, not once per step.
RaisedErrors ==
  SignErrors \cup SignerErrors \cup PollErrors \cup {TimeoutError}
  \cup {NewError(l) : l \in ChainLogs}
  \cup {NewError("Transaction failed with code " \o ToString(c)) : c \in ResultCodes}

RECURSIVE CaughtTable(_)
CaughtTable(pairs) ==
  IF pairs = {} THEN << >>
  ELSE LET p == CHOOSE q \in pairs : TRUE
       IN (p :> Classify(p[1], p[2])) @@ CaughtTable(pairs \ {p})

Caught ==
  CaughtTable({"createValidator", "delegate", "undelegate", "unjail"}
              \X RaisedErrors)

\* What one step of a handler does: the invocation's next state and, when
\* the step calls setTxStatus, the status it sets.
Keep(sub) == [sub |-> sub, set |-> FALSE, status |-> IdleStatus]

\* the page's catch block
PageCatch(sub, stage, error, raisedMsg) ==
  LET message == OrElse(error.message, FailText(sub.kind))
  IN [sub    |-> [sub EXCEPT !.pc = "done", !.failedAt = stage,
                             !.raised = raisedMsg, !.outcome = "error",
                             !.error = message],
      set    |-> TRUE,
      status |-> ErrorStatus(message, error.rawLog)]

\* an error thrown inside the try block of a transaction function
ThrowInTransaction(sub, stage, error) ==
  PageCatch(sub, stage,
            IF error \in RaisedErrors
              THEN Caught[<< sub.kind, error >>] ELSE Classify(sub.kind, error),
            error.message)

\* signer.signAndBroadcast({ messages, fee }, broadcastOptions) is called
StartSign(sub, gas) ==
  [sub EXCEPT !.pc = "sign", !.feeGas = gas, !.form = NoForm,
              !.calls.sign = @ + 1,
              !.stages = @ \o << "estimated", "sign" >>]

\* (variant: signing starts without waiting for the estimate)
OnSignerResolvedNoEstimate(sub) ==
  LET err == BuilderError(sub.kind, sub.form)
  IN IF err # ""
       THEN ThrowInTransaction([sub EXCEPT !.form = NoForm], "build",
                               NewError(err))
       ELSE Keep([sub EXCEPT !.pc = "sign", !.form = NoForm,
                             !.feeGas = FallbackGas, !.calls.sign = @ + 1,
                             !.stages = @ \o << "build", "sign" >>])

\* createInjectiveSigner has returned: the transaction function runs up to
\* its first await
OnSignerResolved(sub) ==
  LET err == BuilderError(sub.kind, sub.form)
  IN IF err # ""
       THEN ThrowInTransaction([sub EXCEPT !.form = NoForm], "build",
                               NewError(err))
       ELSE Keep([sub EXCEPT !.pc = "getAccount", !.form = NoForm,
                             !.calls.account = @ + 1,
                             !.stages = @ \o << "build", "estimate" >>])

\* (variant: estimateGas without its catch block)
OnEstimateFailurePropagates(sub, reason) ==
  ThrowInTransaction([sub EXCEPT !.gasFailed = reason], "estimate",
                     NewError("Gas estimation failed: " \o reason))

\* the catch block of estimateGas
OnEstimateFailure(sub, reason) ==
  Keep(StartSign([sub EXCEPT !.gasFailed = reason], FallbackGas))

\* simulateByTxBody has returned
OnSimulation(sub, hasGasInfo, gasUsed) ==
  IF ~hasGasInfo \/ gasUsed = 0
    THEN OnEstimateFailure(sub, "gasInfo")
    ELSE Keep(StartSign([sub EXCEPT !.gasUsed = gasUsed],
                        gasWithMultiplier(gasUsed)))

\* (variant: one more attempt after a failed signAndBroadcast)
OnSignErrorRetry(sub, error) ==
  IF sub.calls.sign < 2
    THEN Keep(StartSign([sub EXCEPT !.stages = << "build", "estimate" >>],
                        FallbackGas))
    ELSE ThrowInTransaction(sub, "sign", error)

\* signAndBroadcast has thrown
OnSignError(sub, error) == ThrowInTransaction(sub, "sign", error)

\* (variant: the broadcastResponse is not inspected)
OnBroadcastResultUnchecked(sub, hash, txResult, codespace) ==
  Keep([sub EXCEPT !.hash = hash, !.txResult = txResult,
                   !.pc = "wait", !.elapsed = 0, !.calls.wait = @ + 1,
                   !.stages = @ \o << "broadcast", "poll" >>])

\* signAndBroadcast has returned: the broadcastResponse is inspected, then
\* result.wait(60000, 2000) is called
OnBroadcastResult(sub, hash, txResult, codespace) ==
  LET got == [sub EXCEPT !.hash = hash, !.txResult = txResult,
                         !.stages = @ \o << "broadcast" >>]
  IN IF txResult.present /\ txResult.code # 0
       THEN ThrowInTransaction(got, "mempool",
              NewError(OrElse(txResult.log,
                 "Transaction failed with code " \o ToString(txResult.code)
                 \o " (codespace: " \o OrElse(codespace, "unknown") \o ")")))
       ELSE Keep([got EXCEPT !.pc = "wait", !.elapsed = 0,
                             !.calls.wait = @ + 1,
                             !.stages = @ \o << "poll" >>])

\* (variant: the error of wait is swallowed and the broadcast result shown)
OnWaitErrorSwallowed(sub, waitError) ==
  [sub    |-> [sub EXCEPT !.pc = "refresh", !.outcome = "success"],
   set    |-> TRUE,
   status |-> SuccessStatus(sub.hash, "")]

\* wait has thrown
OnWaitError(sub, waitError) ==
  IF sub.txResult.present /\ sub.txResult.code # 0
    THEN ThrowInTransaction(sub, "wait",
           NewError(OrElse(sub.txResult.log,
              "Transaction failed with code " \o ToString(sub.txResult.code))))
    ELSE ThrowInTransaction(sub, "wait", waitError)

\* (variant: wait without a timeout)
WaitNeverExpires(elapsed) == FALSE

\* wait gives up once the timeout has elapsed
WaitExpired(elapsed) == elapsed >= WaitTimeoutMs

\* a result handler that reports the success without the finalized raw log
OnWaitResultDropsLog(sub, code, rawLog) ==
  LET got == [sub EXCEPT !.final = code, !.finalLog = rawLog]
  IN IF code # 0
       THEN ThrowInTransaction(got, "final",
              NewError(OrElse(rawLog,
                 "Transaction failed with code " \o ToString(code))))
     ELSE [sub    |-> [got EXCEPT !.pc = "refresh", !.outcome = "success"],
           set    |-> TRUE,
           status |-> SuccessStatus(got.hash, "")]

\* wait has returned the finalized txResponse; the handler then shows the
\* result
OnWaitResult(sub, code, rawLog) ==
  LET got == [sub EXCEPT !.final = code, !.finalLog = rawLog]
  IN IF code # 0
       THEN ThrowInTransaction(got, "final",
              NewError(OrElse(rawLog,
                 "Transaction failed with code " \o ToString(code))))
     ELSE IF got.hash # ""
       THEN [sub    |-> [got EXCEPT !.pc = "refresh", !.outcome = "success"],
             set    |-> TRUE,
             status |-> SuccessStatus(got.hash, rawLog)]
     ELSE PageCatch(got, "nohash",
            NewError("Transaction completed but no transaction hash was returned"),
            "")


\* ---- the 'async' createValidatorTransaction ---------------------------------------------
\* createValidatorTransaction up to the message it builds: the error thrown
\* ("" when none) and the commission and amount fields of msg.value
createValidatorMessage(data) ==
  [error             |-> BuilderError("createValidator", data),
   rate              |-> percentStringToDecimal(data.commissionRate).value,
   maxRate           |-> percentStringToDecimal(data.maxCommissionRate).value,
   maxChangeRate     |-> percentStringToDecimal(data.maxCommissionChangeRate).value,
   minSelfDelegation |-> amountToBase(data.minSelfDelegation),
   amount            |-> amountToBase(data.selfDelegation)]

BuilderErrorAsync(data) ==
  LET selfDelegationAmount    == ParseFloat(data.selfDelegation)
      minSelfDelegationAmount == ParseFloat(data.minSelfDelegation)
  IN IF AtobLength(data.consensusPubkey) # 32
       THEN "Failed to decode consensus pubkey. Please ensure it is valid base64-encoded ed25519 key."
     ELSE IF isNaN(selfDelegationAmount) \/ selfDelegationAmount.value <= 0
       THEN "Self delegation amount must be a positive number"
     ELSE IF isNaN(minSelfDelegationAmount) \/ minSelfDelegationAmount.value <= 0
       THEN "Min self delegation must be a positive number"
     ELSE IF selfDelegationAmount.value < minSelfDelegationAmount.value
       THEN "Self delegation amount must be at least the minimum self delegation"
     ELSE ""

ClassifyAsync(error) ==
  LET errorMsg == OrElse(error.message, "Error")
      cats     == Categories("createValidator")
      hits     == {i \in 1..Len(cats) : CategoryMatches(cats[i], errorMsg)}
      txHashMatch == OrElse(MatchHex0x(errorMsg), error.txHash)
      detailedError == OrElse(error.detail, errorMsg)
  IN IF hits # {}
       THEN NewError(cats[CHOOSE i \in hits : \A j \in hits : i <= j].message)
     ELSE IF Includes(errorMsg, "RPC Error") \/ Includes(errorMsg, "Internal error")
       THEN IF txHashMatch # ""
              THEN NewError(
                "Transaction signed and broadcast, but RPC returned an error. "
                \o "Transaction hash: " \o txHashMatch \o ". "
                \o "Please check your wallet or explorer to confirm the transaction status. "
                \o "Error: " \o detailedError)
              ELSE NewError(
                "RPC endpoint error during broadcast. "
                \o "The transaction may have been signed successfully. "
                \o "Please check your wallet transaction history or try again. "
                \o "Error: " \o detailedError \o " "
                \o "(Code: " \o OrElse(error.code, "unknown") \o ")")
     ELSE error

\* createInjectiveSigner has returned: validation, then signAndBroadcast in
\* 'async' mode with the fixed gas
OnSignerResolvedAsync(sub) ==
  LET err == BuilderErrorAsync(sub.form)
  IN IF err # ""
       THEN PageCatch([sub EXCEPT !.form = NoForm], "build",
                      ClassifyAsync(NewError(err)), err)
       ELSE Keep([sub EXCEPT !.pc = "signAsync", !.form = NoForm,
                             !.feeGas = LegacyGas, !.calls.sign = @ + 1,
                             !.stages = @ \o << "build", "sign" >>])

\* signAndBroadcast has returned: the result is shown as the outcome
OnBroadcastResultAsync(sub, hash) ==
  [sub    |-> [sub EXCEPT !.pc = "sent", !.hash = hash, !.outcome = "success",
                          !.stages = @ \o << "broadcast" >>],
   set    |-> TRUE,
   status |-> SuccessStatus(hash, "")]

\* ---- actions ------------------------------------------------------------------------------
\* setTxStatus(new), and the effects of TransactionStatus that a changed
\* status runs: the notice is shown again, the auto-dismiss timer restarted
SetTxStatus(new) ==
  /\ txStatus' = new
  /\ notice' =
       [notice EXCEPT
          !.isVisible =
             IF new.status # "idle"
                /\ << new.status, new.hash, new.error >>
                     # << txStatus.status, txStatus.hash, txStatus.error >>
               THEN TRUE ELSE @,
          !.timer =
             IF new.status = "idle" THEN FALSE
             ELSE IF HasOnDismiss(page) \/ new.status # txStatus.status
               THEN TRUE ELSE @]

Apply(s, r) ==
  /\ subs' = [subs EXCEPT ![s] = r.sub]
  /\ IF r.set THEN SetTxStatus(r.status) ELSE UNCHANGED << txStatus, notice >>

\* the polls of one clock step, and the time they take
PollsPerStep == (WaitTimeoutMs \div PollIntervalMs + ClockSteps - 1) \div ClockSteps
StepMs == PollsPerStep * PollIntervalMs

\* the locals of the estimate are dead once signAndBroadcast has settled,
\* the clock of wait once wait has settled
SignSettled(sub) == [sub EXCEPT !.gasUsed = -1, !.gasFailed = "", !.feeGas = -1]
WaitSettled(sub) == [sub EXCEPT !.elapsed = 0]
WaitThrew(sub, error) == [WaitSettled(sub) EXCEPT !.waitError = error.message]

\* A handler runs to completion: no event is served between its last
\* setTxStatus and its return.
Returning == \E s \in Slots : subs[s].pc = "done"

\* the forms the page's zod schema lets through to the handler
AcceptedRegistrationForms ==
  {data \in RegistrationForms : SchemaAccepts("createValidator", data)}
AcceptedDelegationForms ==
  {data \in DelegationForms : SchemaAccepts("delegate", data)}

AcceptedForms(kind) ==
  CASE kind = "createValidator" -> AcceptedRegistrationForms
    [] kind \in {"delegate", "undelegate"} -> AcceptedDelegationForms
    [] kind = "unjail" -> {NoForm}

\* disabled={txStatus.status === 'pending'} / isSubmitting
SubmitEnabled == controlShown /\ txStatus.status # "pending"

FreeSlot(s) ==
  /\ subs[s].pc = "idle"
  /\ \A t \in Slots : t < s => subs[t].pc # "idle"

\* The user submits the form: the handler sets `pending` and calls
\* createInjectiveSigner, which starts the status handshake on the RPC endpoint.
Submit(s, kind, data) ==
  /\ ~Returning
  /\ UNCHANGED unit
  /\ SubmitEnabled
  /\ FreeSlot(s)
  /\ kind \in Kinds(page)
  /\ data \in AcceptedForms(kind)
  /\ subs' = [subs EXCEPT ![s] =
                [IdleSub EXCEPT !.pc = "signer", !.kind = kind, !.form = data,
                                !.calls.status = 1]]
  /\ SetTxStatus(PendingStatus)
  /\ UNCHANGED << page, controlShown >>

WalletProblems(p) ==
  IF p \in {"ValidatorRegistrationPage", AsyncPage}
    THEN {"notFullyConnected", "noSigner"} ELSE {"noSigner"}

\* The user submits while the wallet cannot sign: the handler ends at once.
SubmitRefused(kind, data, problem) ==
  /\ ~Returning
  /\ UNCHANGED unit
  /\ SubmitEnabled
  /\ kind \in Kinds(page)
  /\ data \in AcceptedForms(kind)
  /\ problem \in WalletProblems(page)
  /\ SetTxStatus(ErrorStatus(
       IF problem = "notFullyConnected"
         THEN "Wallet is not fully connected. Please wait and try again."
         ELSE "Failed to get offline signer", ""))
  /\ UNCHANGED << page, controlShown, subs >>

SignerResolves(s) ==
  /\ ~Returning
  /\ UNCHANGED unit
  /\ subs[s].pc = "signer"
  /\ page \in CurrentPages
  /\ Apply(s, OnSignerResolved(subs[s]))
  /\ UNCHANGED << page, controlShown >>

SignerRejects(s, error) ==
  /\ ~Returning
  /\ UNCHANGED unit
  /\ subs[s].pc = "signer"
  /\ error \in SignerErrors
  /\ Apply(s, PageCatch([subs[s] EXCEPT !.form = NoForm], "signer", error,
                        error.message))
  /\ UNCHANGED << page, controlShown >>

GetAccountResolves(s) ==
  /\ ~Returning
  /\ UNCHANGED unit
  /\ subs[s].pc = "getAccount"
  /\ Apply(s, Keep([subs[s] EXCEPT !.pc = "buildTxBody"]))
  /\ UNCHANGED << page, controlShown >>

BuildTxBodyResolves(s) ==
  /\ ~Returning
  /\ UNCHANGED unit
  /\ subs[s].pc = "buildTxBody"
  /\ Apply(s, Keep([subs[s] EXCEPT !.pc = "simulate",
                                   !.calls.simulate = @ + 1]))
  /\ UNCHANGED << page, controlShown >>

SimulateResolves(s, hasGasInfo, gasUsed) ==
  /\ ~Returning
  /\ UNCHANGED unit
  /\ subs[s].pc = "simulate"
  /\ hasGasInfo \in BOOLEAN
  /\ gasUsed \in 0..MaxGasUsed
  /\ Apply(s, OnSimulation(subs[s], hasGasInfo, gasUsed))
  /\ UNCHANGED << page, controlShown >>

\* getAccount, buildTxBody or simulateByTxBody throws
EstimateRejects(s) ==
  /\ ~Returning
  /\ UNCHANGED unit
  /\ subs[s].pc \in EstimateFailures
  /\ Apply(s, OnEstimateFailure(subs[s], subs[s].pc))
  /\ UNCHANGED << page, controlShown >>

SignAndBroadcastRejects(s, error) ==
  /\ ~Returning
  /\ UNCHANGED unit
  /\ subs[s].pc = "sign"
  /\ error \in SignErrors
  /\ Apply(s, OnSignError(SignSettled(subs[s]), error))
  /\ UNCHANGED << page, controlShown >>

SignAndBroadcastResolves(s, hash, txResult, codespace) ==
  /\ ~Returning
  /\ UNCHANGED unit
  /\ subs[s].pc = "sign"
  /\ [hash |-> hash, txResult |-> txResult, codespace |-> codespace]
       \in BroadcastResponses
  /\ Apply(s, OnBroadcastResult(SignSettled(subs[s]), hash, txResult, codespace))
  /\ UNCHANGED << page, controlShown >>

\* wait polls and the transaction is not yet in a block
WaitPollMiss(s) ==
  /\ ~Returning
  /\ UNCHANGED unit
  /\ subs[s].pc = "wait"
  /\ ~WaitExpired(subs[s].elapsed)
  /\ subs[s].elapsed < WaitTimeoutMs
  /\ Apply(s, Keep([subs[s] EXCEPT !.elapsed = @ + StepMs]))
  /\ UNCHANGED << page, controlShown >>

WaitTimesOut(s) ==
  /\ ~Returning
  /\ UNCHANGED unit
  /\ subs[s].pc = "wait"
  /\ WaitExpired(subs[s].elapsed)
  /\ Apply(s, OnWaitError(WaitThrew(subs[s], TimeoutError), TimeoutError))
  /\ UNCHANGED << page, controlShown >>

WaitRejects(s, error) ==
  /\ ~Returning
  /\ UNCHANGED unit
  /\ subs[s].pc = "wait"
  /\ ~WaitExpired(subs[s].elapsed)
  /\ error \in PollErrors
  /\ Apply(s, OnWaitError(WaitThrew(subs[s], error), error))
  /\ UNCHANGED << page, controlShown >>

WaitResolves(s, code, rawLog) ==
  /\ ~Returning
  /\ UNCHANGED unit
  /\ subs[s].pc = "wait"
  /\ ~WaitExpired(subs[s].elapsed)
  /\ code \in ResultCodes
  /\ rawLog \in ChainLogs
  /\ Apply(s, OnWaitResult(WaitSettled(subs[s]), code, rawLog))
  /\ UNCHANGED << page, controlShown >>

\* the reload after a success has finished; the page shows its control again
\* only when the reloaded validator still calls for it
RefreshDone(s, shown) ==
  /\ ~Returning
  /\ UNCHANGED unit
  /\ subs[s].pc = "refresh"
  /\ shown \in BOOLEAN
  /\ page = "DelegationPage" => shown
  /\ subs' = [subs EXCEPT ![s].pc = "done"]
  /\ controlShown' = shown
  /\ UNCHANGED << page, txStatus, notice >>

\* a reload that throws inside the handler's try block
OnRefreshFailureRethrown(sub) ==
  PageCatch(sub, "refresh", NewError("Failed to fetch"), "Failed to fetch")

\* the reload after a success fails: the loader's own catch logs the error
\* and clears what it loads, and the await in the handler resolves
OnRefreshFailure(sub) ==
  [sub    |-> [sub EXCEPT !.pc = "done", !.failedAt = "refresh"],
   set    |-> FALSE,
   status |-> IdleStatus]

\* the query of the reload rejects; setValidator(null) leaves the unjail page
\* without its button, the other pages keep their forms
RefreshFails(s) ==
  /\ ~Returning
  /\ UNCHANGED unit
  /\ subs[s].pc = "refresh"
  /\ Apply(s, OnRefreshFailure(subs[s]))
  /\ controlShown' = (page # "UnjailPage")
  /\ UNCHANGED page

\* the handler's promise has settled
HandlerReturns(s) ==
  /\ subs[s].pc = "done"
  /\ subs' = [subs EXCEPT ![s] = IdleSub]
  /\ UNCHANGED << page, controlShown, txStatus, notice, unit >>

\* the notice is on screen with its close button
NoticeRendered ==
  /\ notice.isVisible
  /\ \/ txStatus.status = "pending"
     \/ txStatus.status = "success" /\ txStatus.hash # ""
     \/ txStatus.status = "error" /\ txStatus.error # ""

ScheduleOnDismiss(n) ==
  IF HasOnDismiss(page) THEN [n EXCEPT !.pending = @ + 1] ELSE n

\* handleDismiss: the user closes the notice
DismissClick ==
  /\ ~Returning
  /\ UNCHANGED unit
  /\ NoticeRendered
  /\ notice.pending < MaxPendingDismiss
  /\ notice' = ScheduleOnDismiss([notice EXCEPT !.isVisible = FALSE])
  /\ UNCHANGED << page, controlShown, txStatus, subs >>

\* the 20 s auto-dismiss timer fires
AutoDismiss ==
  /\ ~Returning
  /\ UNCHANGED unit
  /\ txStatus.status # "idle"
  /\ notice.timer
  /\ notice.pending < MaxPendingDismiss
  /\ notice' = ScheduleOnDismiss([notice EXCEPT !.isVisible = FALSE,
                                                !.timer = FALSE])
  /\ UNCHANGED << page, controlShown, txStatus, subs >>

\* setTimeout(onDismiss, 300) fires: setTxStatus({ status: 'idle' })
OnDismiss ==
  /\ ~Returning
  /\ UNCHANGED unit
  /\ notice.pending > 0
  /\ txStatus' = IdleStatus
  /\ notice' = [notice EXCEPT !.pending = @ - 1, !.timer = FALSE]
  /\ UNCHANGED << page, controlShown, subs >>

\* ---- actions of the 'async' registration page ------------------------------------------
SignerResolvesAsync(s) ==
  /\ ~Returning
  /\ UNCHANGED unit
  /\ subs[s].pc = "signer"
  /\ page = AsyncPage
  /\ Apply(s, OnSignerResolvedAsync(subs[s]))
  /\ UNCHANGED << page, controlShown >>

BroadcastRejectsAsync(s, error) ==
  /\ ~Returning
  /\ UNCHANGED unit
  /\ subs[s].pc = "signAsync"
  /\ error \in SignErrors
  /\ Apply(s, PageCatch(subs[s], "sign", ClassifyAsync(error), error.message))
  /\ UNCHANGED << page, controlShown >>

\* the result is shown and setValidatorRegistered(true) replaces the form
BroadcastResolvesAsync(s, hash) ==
  /\ ~Returning
  /\ UNCHANGED unit
  /\ subs[s].pc = "signAsync"
  /\ hash \in TxHashes
  /\ Apply(s, OnBroadcastResultAsync(subs[s], hash))
  /\ controlShown' = FALSE
  /\ UNCHANGED page

\* the chain includes the broadcast transaction in a block
ChainFinalizes(s, code, log) ==
  /\ ~Returning
  /\ UNCHANGED unit
  /\ page = AsyncPage
  /\ subs[s].pc = "sent"
  /\ code \in ResultCodes
  /\ log \in ChainLogs
  /\ code = 0 => log = ""
  /\ subs' = [subs EXCEPT ![s].final = code, ![s].finalLog = log,
                          ![s].pc = "done"]
  /\ UNCHANGED << page, controlShown, txStatus, notice >>

\* ---- specifications -------------------------------------------------------------------------
InitOn(pages) ==
  /\ page \in pages
  /\ controlShown = TRUE
  /\ txStatus = IdleStatus
  /\ notice = [isVisible |-> TRUE, timer |-> FALSE, pending |-> 0]
  /\ subs = [s \in Slots |-> IdleSub]
  /\ unit = NoUnit

Init == InitOn(CurrentPages)

Next ==
  \/ \E s \in Slots, kind \in Kinds(page) :
        \E data \in Forms(kind) : Submit(s, kind, data)
  \/ \E kind \in Kinds(page), problem \in WalletProblems(page) :
        \E data \in Forms(kind) : SubmitRefused(kind, data, problem)
  \/ DismissClick
  \/ AutoDismiss
  \/ OnDismiss
  \/ \E s \in Slots : SignerResolves(s)
  \/ \E s \in Slots, error \in SignerErrors : SignerRejects(s, error)
  \/ \E s \in Slots : GetAccountResolves(s)
  \/ \E s \in Slots : BuildTxBodyResolves(s)
  \/ \E s \in Slots, hasGasInfo \in BOOLEAN, gasUsed \in 0..MaxGasUsed :
        SimulateResolves(s, hasGasInfo, gasUsed)
  \/ \E s \in Slots : EstimateRejects(s)
  \/ \E s \in Slots, error \in SignErrors : SignAndBroadcastRejects(s, error)
  \/ \E s \in Slots, r \in BroadcastResponses :
        SignAndBroadcastResolves(s, r.hash, r.txResult, r.codespace)
  \/ \E s \in Slots : WaitPollMiss(s)
  \/ \E s \in Slots : WaitTimesOut(s)
  \/ \E s \in Slots, error \in PollErrors : WaitRejects(s, error)
  \/ \E s \in Slots, code \in ResultCodes, rawLog \in ChainLogs :
        WaitResolves(s, code, rawLog)
  \/ \E s \in Slots, shown \in BOOLEAN : RefreshDone(s, shown)
  \/ \E s \in Slots : RefreshFails(s)
  \/ \E s \in Slots : HandlerReturns(s)

Spec == Init /\ [][Next]_vars


\* The awaited calls of a handler settle, the clock of wait advances and a
\* handler that has set its outcome returns; that the chain ever includes the
\* transaction is not assumed.
AwaitSettles(s) ==
  \/ SignerResolves(s)
  \/ GetAccountResolves(s)
  \/ BuildTxBodyResolves(s)
  \/ \E hasGasInfo \in BOOLEAN, gasUsed \in 0..MaxGasUsed :
        SimulateResolves(s, hasGasInfo, gasUsed)
  \/ \E r \in BroadcastResponses :
        SignAndBroadcastResolves(s, r.hash, r.txResult, r.codespace)

ClockAdvances(s) == WaitPollMiss(s) \/ WaitTimesOut(s)

Progress(s) == AwaitSettles(s) \/ ClockAdvances(s) \/ HandlerReturns(s)

Fairness == \A s \in Slots : WF_vars(Progress(s))

\* DelegationPage, which passes no onDismiss to its notice
InitDelegation == InitOn({"DelegationPage"})

NextDelegation ==
  \/ \E s \in Slots, kind \in Kinds(page) :
        \E data \in Forms(kind) : Submit(s, kind, data)
  \/ \E kind \in Kinds(page), problem \in WalletProblems(page) :
        \E data \in Forms(kind) : SubmitRefused(kind, data, problem)
  \/ DismissClick
  \/ AutoDismiss
  \/ \E s \in Slots : SignerResolves(s)
  \/ \E s \in Slots, error \in SignerErrors : SignerRejects(s, error)
  \/ \E s \in Slots : GetAccountResolves(s)
  \/ \E s \in Slots : BuildTxBodyResolves(s)
  \/ \E s \in Slots, hasGasInfo \in BOOLEAN, gasUsed \in 0..MaxGasUsed :
        SimulateResolves(s, hasGasInfo, gasUsed)
  \/ \E s \in Slots : EstimateRejects(s)
  \/ \E s \in Slots, error \in SignErrors : SignAndBroadcastRejects(s, error)
  \/ \E s \in Slots, r \in BroadcastResponses :
        SignAndBroadcastResolves(s, r.hash, r.txResult, r.codespace)
  \/ \E s \in Slots : WaitPollMiss(s)
  \/ \E s \in Slots : WaitTimesOut(s)
  \/ \E s \in Slots, error \in PollErrors : WaitRejects(s, error)
  \/ \E s \in Slots, code \in ResultCodes, rawLog \in ChainLogs :
        WaitResolves(s, code, rawLog)
  \/ \E s \in Slots, shown \in BOOLEAN : RefreshDone(s, shown)
  \/ \E s \in Slots : RefreshFails(s)
  \/ \E s \in Slots : HandlerReturns(s)

FairSpec == InitDelegation /\ [][NextDelegation]_vars /\ Fairness

\* ---- with the page that uses the 'async' createValidatorTransaction -------------------
InitAll == InitOn(CurrentPages \cup {AsyncPage})

NextAll ==
  \/ Next
  \/ \E s \in Slots : SignerResolvesAsync(s)
  \/ \E s \in Slots, error \in SignErrors : BroadcastRejectsAsync(s, error)
  \/ \E s \in Slots, hash \in TxHashes : BroadcastResolvesAsync(s, hash)
  \/ \E s \in Slots, code \in ResultCodes, log \in ChainLogs :
        ChainFinalizes(s, code, log)

SpecAll == InitAll /\ [][NextAll]_vars

\* ---- properties -----------------------------------------------------------------------------
InFlight(s) == subs[s].pc # "idle" /\ subs[s].outcome = "none"

\* the message a page shows for an error raised inside a transaction function
Shown(kind, raisedMsg) ==
  OrElse(Classify(kind, NewError(raisedMsg)).message, FailText(kind))

DefinitiveFailure(txResult) == txResult.present /\ txResult.code # 0

\* C1: no submission is shown as success when the finalized result of its
\* transaction has a nonzero code.
C1_NoSuccessOnFailedFinal ==
  \A s \in Slots :
    subs[s].outcome = "success" => subs[s].final \in {-1, 0}

C1_Witness ==
  \E s \in Slots :
    /\ subs[s].outcome = "success"
    /\ subs[s].final = 0

C3_PollFailureNeverSucceeds ==
  \A s \in Slots :
    subs[s].waitError # "" =>
      /\ subs[s].outcome = "error"
      /\ subs[s].failedAt = "wait"
      /\ subs[s].raised =
           IF DefinitiveFailure(subs[s].txResult)
             THEN OrElse(subs[s].txResult.log,
                         "Transaction failed with code "
                         \o ToString(subs[s].txResult.code))
             ELSE subs[s].waitError
      /\ subs[s].error = Shown(subs[s].kind, subs[s].raised)

C3_Witness ==
  \E s \in Slots :
    /\ subs[s].waitError = "Internal error"
    /\ subs[s].outcome = "error"
    /\ txStatus.status = "error"

\* C4: while a submission is in flight the page's submit control is disabled.
C4_ControlDisabledWhileInFlight ==
  (\E s \in Slots : InFlight(s)) => ~SubmitEnabled

C4_Witness ==
  /\ \E s \in Slots : InFlight(s)
  /\ txStatus.status = "pending"
  /\ ~notice.isVisible

\* C5: when a builder rejects its input, no network call of that submission
\* has been issued.
C5_BuilderRejectsBeforeNetwork ==
  \A s \in Slots :
    subs[s].failedAt = "build" => subs[s].calls = NoCalls

C5_Witness ==
  \E s \in Slots :
    /\ subs[s].failedAt = "build"
    /\ subs[s].raised = "Self delegation amount must be at least the minimum self delegation"

\* C6: within one submission signAndBroadcast is called at most once, and a
\* submission that has failed makes no further step but its return.
C6_SignAtMostOnce ==
  \A s \in Slots :
    /\ subs[s].calls.sign <= 1
    /\ subs[s].outcome = "error" => subs[s].pc = "done"

C6_Witness ==
  \E s \in Slots :
    /\ subs[s].failedAt = "sign"
    /\ subs[s].calls.sign = 1
    /\ subs[s].outcome = "error"

\* C7: the stages of one submission run in the order build, estimate, sign,
\* broadcast, poll: the estimate is complete before signing starts, and
\* polling starts after the broadcast has returned.
StageOrder == << "build", "estimate", "estimated", "sign", "broadcast", "poll" >>

C7_StagesInOrder ==
  \A s \in Slots :
    /\ Len(subs[s].stages) <= Len(StageOrder)
    /\ subs[s].stages = SubSeq(StageOrder, 1, Len(subs[s].stages))
    /\ subs[s].calls.sign > 0 => subs[s].pc \notin EstimateFailures
    /\ subs[s].calls.wait > 0 => subs[s].pc # "sign"

C7_Witness ==
  \E s \in Slots :
    /\ subs[s].stages = StageOrder
    /\ subs[s].pc = "wait"

C9_EstimateFailureFallsBack ==
  \A s \in Slots :
    subs[s].gasFailed # "" =>
      /\ subs[s].pc = "sign"
      /\ subs[s].feeGas = FallbackGas
      /\ subs[s].calls.sign = 1
      /\ subs[s].outcome = "none"

C9_Witness ==
  \E s \in Slots :
    /\ subs[s].gasFailed = "simulate"
    /\ subs[s].pc = "sign"
    /\ subs[s].feeGas = FallbackGas

\* C10 as stated: the gas limit submitted is the simulated gas times 1.5,
\* rounded up.
C10_GasLimitIsCeil ==
  \A s \in Slots :
    subs[s].gasUsed > 0 => subs[s].feeGas = (3 * subs[s].gasUsed + 1) \div 2

\* C10: the gas limit submitted is the simulated gas times 1.5, rounded down.
C10_GasLimitIsFloor ==
  \A s \in Slots :
    subs[s].gasUsed > 0 =>
      /\ subs[s].pc = "sign"
      /\ subs[s].feeGas = subs[s].gasUsed + subs[s].gasUsed \div 2

C10_Witness ==
  \E s \in Slots :
    /\ subs[s].pc = "sign"
    /\ subs[s].gasUsed = 3
    /\ subs[s].feeGas = 4

\* C11: every outcome of a mined transaction carries the transaction hash,
\* also the error outcome of a nonzero finalized code: when the handler has
\* just shown the outcome of a finalized transaction whose hash the broadcast
\* returned, the status on the page holds that hash.
C11_MinedOutcomeCarriesHash ==
  \A s \in Slots :
    (subs[s].pc = "done" /\ subs[s].final # -1 /\ subs[s].hash # "")
      => txStatus.hash = subs[s].hash

C11_Witness ==
  \E s \in Slots :
    /\ subs[s].pc = "done"
    /\ subs[s].final = 5
    /\ subs[s].hash = "ABCD1234"
    /\ txStatus.status = "error"

\* C12: a nonzero finalized code surfaces the chain's raw log to the user, for
\* every log text: when the handler has just shown the error of a finalized
\* failure with a non-empty log, the status holds that log, in its message or
\* in its rawLog.
C12_FinalFailureShowsRawLog ==
  \A s \in Slots :
    (subs[s].pc = "done" /\ subs[s].failedAt = "final" /\ subs[s].finalLog # "")
      => /\ txStatus.status = "error"
         /\ \/ Includes(txStatus.error, subs[s].finalLog)
            \/ txStatus.rawLog = subs[s].finalLog

C12_Witness ==
  \E s \in Slots :
    /\ subs[s].pc = "done"
    /\ subs[s].failedAt = "final"
    /\ subs[s].finalLog = "insufficient funds"
    /\ txStatus.status = "error"

\* C13: a submission becomes a success only with a non-empty transaction hash,
\* and the success status set at that step holds the hash and the finalized
\* raw log.
C13_SuccessHasHashAndLog ==
  [][\A s \in Slots :
       (subs[s].outcome # "success" /\ subs'[s].outcome = "success")
         => /\ subs'[s].hash # ""
            /\ txStatus' = SuccessStatus(subs'[s].hash, subs'[s].finalLog)]_vars

C13_Witness ==
  \E s \in Slots :
    /\ subs[s].outcome = "success"
    /\ subs[s].finalLog # ""
    /\ txStatus = SuccessStatus(subs[s].hash, subs[s].finalLog)

\* ---- the service's functions, each called on its own -------------------------
\* Texts an error message caught in a transaction function can be made of:
\* wallet, chain and transport texts, and texts no category knows.
MessageParts ==
  {"", "Request rejected", "User rejected the request", "insufficient funds",
   "validator already exists", "invalid pubkey", "validator not found",
   "orchestrator address already set", "commission rate change too high",
   "unauthorized", "RPC Error", "Internal error", "out of gas"}

\* a transaction hash as the chain prints it
ChainHash ==
  "9F86D081884C7D659A2FEAA0C55AD015A3BF4F1B2B0B822CD15D6C15B0F00A08"

\* The errors a transaction function catches: plain ones whose message joins
\* two texts, and errors of the transport layer, with or without a code, a
\* nested message, a hash in the message text or in a field of the object.
CaughtErrors ==
  LET Join(a, b) == IF a = "" THEN b ELSE IF b = "" THEN a ELSE a \o ": " \o b
  IN {NewError(Join(a, b)) : a, b \in MessageParts}
     \cup
     {[message |-> m, code |-> c, txHash |-> h, detail |-> d, rawLog |-> ""] :
        m \in {"RPC Error: timeout", "Internal error",
               "RPC Error: tx " \o ChainHash \o " not confirmed",
               "Internal error for 0x" \o ChainHash,
               "RPC Error: insufficient funds",
               "connection lost"},
        c \in {"", "-32603"},
        h \in {"", "ABCD1234"},
        d \in {"", "socket hang up"}}

\* a caught error in the catch block of each transaction function
ClassifyInputs ==
  {[fn |-> "classify", kind |-> k, error |-> e, done |-> FALSE, result |-> e] :
     k \in {"createValidator", "registerOrchestrator", "editValidator",
            "delegate", "undelegate", "unjail"},
     e \in CaughtErrors}

\* what a commission-rate field can hold: percentages in [0,100] in several
\* spellings and precisions, blanks, and malformed text
PercentInputs ==
  {[fn |-> "percent", value |-> v, done |-> FALSE,
    result |-> [threw |-> FALSE, value |-> ""]] :
     v \in {"", "  ", "0", "10", "10.5", " 10 ", "100", "100.0", "5.", "007.50",
            "0.01", "33.333333333333333333", "0.00000000000000001",
            "99.9999999999999999", "12.345678901234567890123",
            "abc", "10abc", "1.2.3", "1..2", ".5", ".", "-1", "1e1", "1 0",
            "10%", "+5"}}

\* editValidatorTransaction called with the form's commission rate (absent,
\* or the text typed) and the validator's current rate as the chain or the
\* page gives it (absent, empty, short, or with 18 digits); and the encoder
\* called on a message whose rate is the empty string
EditInputs ==
  LET message(rate) == [description |-> TRUE, validatorAddress |-> "injvaloper1",
                        commissionRate |-> rate, minSelfDelegation |-> << >>]
      call(pc, rate, current, msg) ==
        [fn |-> "edit", pc |-> pc, commissionRate |-> rate,
         currentCommissionRate |-> current, message |-> msg, wire |-> << >>]
  IN { call("call", rate, current, message(<< >>)) :
         rate \in {<< >>} \cup
            {<< v >> : v \in {"10", "10.0", " 10 ", "010", "10.5", "0", "",
                              "10.00000000000000001", "abc", "150", "10abc"}},
         current \in {<< >>} \cup
            {<< v >> : v \in {"", "0.100000000000000000", "0.1", "0",
                              "0.105000000000000000", "0.1e0"}} }
     \cup { call("built", << "" >>, << >>, message(<< "" >>)) }

\* the transaction functions of the two service files, and the message type
\* each hands to signAndBroadcast
SignInputs ==
  {[fn |-> "sign", service |-> s, kind |-> k, done |-> FALSE, encoders |-> 0] :
     s \in {"current", "legacy"},
     k \in {"createValidator", "registerOrchestrator", "editValidator",
            "delegate", "undelegate"}}
  \cup {[fn |-> "sign", service |-> "current", kind |-> "unjail",
         done |-> FALSE, encoders |-> 0]}

MessageTypeUrl(service, kind) ==
  CASE kind = "createValidator" -> "/cosmos.staking.v1beta1.MsgCreateValidator"
    [] kind = "editValidator"   -> "/cosmos.staking.v1beta1.MsgEditValidator"
    [] kind = "delegate"        -> "/cosmos.staking.v1beta1.MsgDelegate"
    [] kind = "undelegate"      -> "/cosmos.staking.v1beta1.MsgUndelegate"
    [] kind = "unjail"          -> "/cosmos.slashing.v1beta1.MsgUnjail"
    [] kind = "registerOrchestrator" ->
         IF service = "current"
           THEN "/injective.peggy.v1.MsgSetOrchestratorAddresses"
           ELSE "/injective.peggy.v1.MsgSetOrchestratorAddress"

\* the typeUrl of the encoders createInjectiveSigner registers, in order
stakingEncoders ==
  << "/cosmos.staking.v1beta1.MsgCreateValidator",
     "/cosmos.staking.v1beta1.MsgEditValidator",
     "/cosmos.staking.v1beta1.MsgDelegate",
     "/cosmos.staking.v1beta1.MsgUndelegate",
     "/injective.peggy.v1.MsgSetOrchestratorAddresses",
     "/cosmos.slashing.v1beta1.MsgUnjail" >>

\* createValidatorTransaction called with form data: keys of 31, 32 and 33
\* bytes and one that is not base64, rates inside and outside 0..100,
\* amounts below, at and above the minimum
CreateInputs ==
  {[fn |-> "create", data |-> RegistrationForm(pk, rate, "1", self),
    done |-> FALSE, message |-> [error |-> ""]] :
     pk   \in {"AAAAAAAAAAAAAAAAAAAAAAAAAAAAAAAAAAAAAAAAAA==", Pubkey32, Pubkey33,
              "AAAAAAAAAAAAAAAAAAAAAAAAAAAAAAAAAAAAAAAAAAA", "not*base64"},
     rate \in {"10.5", "0", "100", "150", "abc"},
     self \in {"2.5", "1", "0.5", "0", "1000", "2500"}}

\* registerOrchestratorTransaction called with form data: well-formed and
\* malformed orchestrator and Ethereum addresses
OrchestratorInputs ==
  {[fn |-> "orchestrator", service |-> s,
    data |-> [orchestratorAddress |-> o, ethereumAddress |-> e],
    pc |-> "call", message |-> << >>, error |-> ""] :
     s \in {"current", "legacy"},
     o \in {"inj1qqqqqqqqqqqqqqqqqqqqqqqqqqqqqqqqe2hm49",
            "cosmos1qqqqqqqqqqqqqqqqqqqqqqqqqqqqqqqqnrql8a",
            "injvaloper1qqqqqqqqqqqqqqqqqqqqqqqqqqqqqqqqwvz75p",
            "inj1bbbb", "inj", ""},
     e \in {"0x00000000000000000000000000000000000000aB",
            "0x00000000000000000000000000000000000000a",
            "0x00000000000000000000000000000000000000aBc",
            "00000000000000000000000000000000000000aB00",
            "0x00000000000000000000000000000000000000zz", "0x123", ""}}

\* an amount as the user types it, converted to base units as the builders
\* do and then shown again with displayDecimals digits
FormatInputs ==
  {[fn |-> "format", display |-> d, displayDecimals |-> n, pc |-> "typed",
    base |-> "", shown |-> [threw |-> FALSE, text |-> ""]] :
     d \in {"1.5", "1.05", "0.5", "2.5", "1", "0.25", "0.001", "1.0005",
            "10.5", "0.05", "3.07", "1.25", "1000"},
     n \in {2, 4, 18}}

\* the catch block of a transaction function runs on the caught error
ClassifyError ==
  /\ unit.fn = "classify"
  /\ ~unit.done
  /\ unit' = [unit EXCEPT !.done = TRUE,
                          !.result = Classify(unit.kind, unit.error)]
  /\ UNCHANGED << page, controlShown, txStatus, notice, subs >>

\* percentStringToDecimal runs on the text of a commission-rate field
PercentToDecimal ==
  /\ unit.fn = "percent"
  /\ ~unit.done
  /\ unit' = [unit EXCEPT !.done = TRUE,
                          !.result = percentStringToDecimal(unit.value)]
  /\ UNCHANGED << page, controlShown, txStatus, notice, subs >>

\* editValidatorTransaction validates the rate and builds its message
BuildEditValidator ==
  /\ unit.fn = "edit"
  /\ unit.pc = "call"
  /\ LET built == editValidatorMessage(unit.commissionRate,
                                       unit.currentCommissionRate)
     IN unit' = IF built.threw THEN [unit EXCEPT !.pc = "threw"]
                ELSE [unit EXCEPT !.pc = "built",
                        !.message.commissionRate = built.commissionRate]
  /\ UNCHANGED << page, controlShown, txStatus, notice, subs >>

\* the signer encodes the MsgEditValidator it was handed
EncodeMessage ==
  /\ unit.fn = "edit"
  /\ unit.pc = "built"
  /\ unit' = [unit EXCEPT !.pc = "encoded",
                          !.wire = EncodeEditValidator(unit.message)]
  /\ UNCHANGED << page, controlShown, txStatus, notice, subs >>

\* the signer looks up the encoders registered for the type of the message
\* a transaction function hands to signAndBroadcast
FindEncoder ==
  /\ unit.fn = "sign"
  /\ ~unit.done
  /\ unit' = [unit EXCEPT
       !.done = TRUE,
       !.encoders = Cardinality({i \in 1..Len(stakingEncoders) :
                       stakingEncoders[i] = MessageTypeUrl(unit.service, unit.kind)})]
  /\ UNCHANGED << page, controlShown, txStatus, notice, subs >>

\* createValidatorTransaction validates the form data and builds its message
BuildCreateValidator ==
  /\ unit.fn = "create"
  /\ ~unit.done
  /\ LET built == createValidatorMessage(unit.data)
     IN unit' = [unit EXCEPT !.done = TRUE,
                   !.message = IF built.error # ""
                                 THEN [error |-> built.error] ELSE built]
  /\ UNCHANGED << page, controlShown, txStatus, notice, subs >>

\* registerOrchestratorTransaction from its call to the signAndBroadcast it
\* awaits: it builds the message from the data as given and estimates gas;
\* nothing in it throws on the data
RegisterOrchestrator ==
  /\ unit.fn = "orchestrator"
  /\ unit.pc = "call"
  /\ unit' = [unit EXCEPT
       !.pc = "signing",
       !.message = << [typeUrl |-> MessageTypeUrl(unit.service, "registerOrchestrator"),
                       orchestrator |-> unit.data.orchestratorAddress,
                       ethAddress   |-> unit.data.ethereumAddress] >>]
  /\ UNCHANGED << page, controlShown, txStatus, notice, subs >>

\* the typed amount goes to base units (the conversion of the builders)
ConvertAmount ==
  /\ unit.fn = "format"
  /\ unit.pc = "typed"
  /\ unit' = [unit EXCEPT !.pc = "converted", !.base = amountToBase(unit.display)]
  /\ UNCHANGED << page, controlShown, txStatus, notice, subs >>

\* formatTokenAmount shows the base-unit amount
RenderAmount ==
  /\ unit.fn = "format"
  /\ unit.pc = "converted"
  /\ unit' = [unit EXCEPT !.pc = "shown",
                 !.shown = formatTokenAmount(unit.base, 18, unit.displayDecimals)]
  /\ UNCHANGED << page, controlShown, txStatus, notice, subs >>

\* ---- specification of the functions called on their own ---------------------
UnitInputs ==
  ClassifyInputs \cup PercentInputs \cup EditInputs \cup SignInputs
  \cup CreateInputs \cup OrchestratorInputs \cup FormatInputs

InitUnits ==
  /\ page = "DelegationPage"
  /\ controlShown = TRUE
  /\ txStatus = IdleStatus
  /\ notice = [isVisible |-> TRUE, timer |-> FALSE, pending |-> 0]
  /\ subs = [s \in Slots |-> IdleSub]
  /\ unit \in UnitInputs

NextUnits ==
  \/ ClassifyError
  \/ PercentToDecimal
  \/ BuildEditValidator
  \/ EncodeMessage
  \/ FindEncoder
  \/ BuildCreateValidator
  \/ RegisterOrchestrator
  \/ ConvertAmount
  \/ RenderAmount

SpecUnits == InitUnits /\ [][NextUnits]_vars

\* ---- the delegation page that keeps one outcome per form ------------------------
\* delegateTxStatus and undelegateTxStatus, and where each handler stands
SplitPage ==
  [fn |-> "page",
   status |-> [delegate |-> IdleStatus, undelegate |-> IdleStatus],
   pc     |-> [delegate |-> "idle", undelegate |-> "idle"]]

\* the user submits a form: its button is disabled only while the outcome of
\* that form is pending.  A handler is followed once at a time.
HandleSubmit(kind) ==
  /\ unit.fn = "page"
  /\ unit.status[kind].status # "pending"
  /\ unit.pc[kind] = "idle"
  /\ unit' = [unit EXCEPT !.status[kind] = PendingStatus, !.pc[kind] = "signer"]
  /\ UNCHANGED << page, controlShown, txStatus, notice, subs >>

\* await createInjectiveSigner(...) settles
HandleSignerSettles(kind, errors) ==
  /\ unit.fn = "page"
  /\ unit.pc[kind] = "signer"
  /\ \/ unit' = [unit EXCEPT !.pc[kind] = "transaction"]
     \/ \E error \in errors :
          unit' = [unit EXCEPT
                     !.pc[kind] = "idle",
                     !.status[kind] =
                        ErrorStatus(OrElse(error.message, FailText(kind)), "")]
  /\ UNCHANGED << page, controlShown, txStatus, notice, subs >>

\* await delegateTransaction(...) / undelegateTransaction(...) settles: the
\* transaction was signed, broadcast and waited for inside it
HandleTransactionSettles(kind, hashes, errors) ==
  /\ unit.fn = "page"
  /\ unit.pc[kind] = "transaction"
  /\ \/ \E hash \in hashes :
          unit' = [unit EXCEPT !.pc[kind] = "reload",
                               !.status[kind] = SuccessStatus(hash, "")]
     \/ \E error \in errors :
          unit' = [unit EXCEPT
                     !.pc[kind] = "idle",
                     !.status[kind] =
                        ErrorStatus(OrElse(error.message, FailText(kind)), "")]
  /\ UNCHANGED << page, controlShown, txStatus, notice, subs >>

\* await loadDelegationInfo() settles; it catches its own errors
HandleReloadSettles(kind) ==
  /\ unit.fn = "page"
  /\ unit.pc[kind] = "reload"
  /\ unit' = [unit EXCEPT !.pc[kind] = "idle"]
  /\ UNCHANGED << page, controlShown, txStatus, notice, subs >>

InitSplitPage ==
  /\ page = "DelegationPage"
  /\ controlShown = TRUE
  /\ txStatus = IdleStatus
  /\ notice = [isVisible |-> TRUE, timer |-> FALSE, pending |-> 0]
  /\ subs = [s \in Slots |-> IdleSub]
  /\ unit = SplitPage

NextSplitPage ==
  \/ \E kind \in Kinds(page) : HandleSubmit(kind)
  \/ \E kind \in Kinds(page) : HandleSignerSettles(kind, SignerErrors)
  \/ \E kind \in Kinds(page) :
        HandleTransactionSettles(kind, TxHashes, SignErrors \cup {TimeoutError})
  \/ \E kind \in Kinds(page) : HandleReloadSettles(kind)

SpecSplitPage == InitSplitPage /\ [][NextSplitPage]_vars

\* ---- the cache of Keybase pictures -------------------------------------------------
\* localStorage holds at most StorageCapacity entries (its quota); the clock
\* runs up to MaxClockSteps steps of four days
StorageCapacity == 2
MaxClockSteps == 2

CACHE_EXPIRY_MS == 7 * 24 * 60 * 60 * 1000

Identities == {"id1", "id2", "id3"}

\* what a function returns for null, and the key that holds nothing
Null == "null"
NoEntry == [url |-> Null, timestamp |-> -1]

\* localStorage.setItem(key, entry): QuotaExceededError when a new key would
\* go beyond the quota
setItem(storage, key, entry) ==
  IF storage[key] = NoEntry
     /\ Cardinality({k \in Identities : storage[k] # NoEntry}) >= StorageCapacity
    THEN [threw |-> TRUE, storage |-> storage]
    ELSE [threw |-> FALSE, storage |-> [storage EXCEPT ![key] = entry]]

getCachedKeybaseImage(storage, identity, now) ==
  LET entry == storage[identity]
  IN IF entry = NoEntry THEN [url |-> Null, storage |-> storage]
     ELSE IF now - entry.timestamp > CACHE_EXPIRY_MS
       THEN [url |-> Null, storage |-> [storage EXCEPT ![identity] = NoEntry]]
     ELSE [url |-> entry.url, storage |-> storage]

clearExpiredCacheEntries(storage, now) ==
  [k \in Identities |->
     IF storage[k] # NoEntry /\ now - storage[k].timestamp > CACHE_EXPIRY_MS
       THEN NoEntry ELSE storage[k]]

\* cacheKey and entry are constants of the try block: the setItem of the
\* catch block names them out of their scope and throws a ReferenceError,
\* which the inner catch logs
setCachedKeybaseImage(storage, identity, url, now) ==
  LET first == setItem(storage, identity, [url |-> url, timestamp |-> now])
  IN IF ~first.threw THEN first.storage
     ELSE clearExpiredCacheEntries(storage, now)

setCachedKeybaseImageNotFound(storage, identity, now) ==
  setItem(storage, identity, [url |-> "", timestamp |-> now]).storage

\* the cache, the clock, the call of loadKeybasePicture in progress; as
\* history the last result got over the network per identity, the call
\* that returned last and the last write of a picture URL
EmptyCache ==
  [fn |-> "cache",
   storage  |-> [k \in Identities |-> NoEntry],
   now      |-> 0,
   call     |-> [identity |-> "", pc |-> "idle", prior |-> NoEntry],
   resolved |-> [k \in Identities |-> NoEntry],
   returned |-> [identity |-> "", url |-> Null, requested |-> FALSE,
                 prior |-> NoEntry, at |-> 0],
   write    |-> [identity |-> "", full |-> FALSE, freed |-> 0]]

\* loadKeybasePicture returns url to its caller
ReturnPicture(u, url, requested) ==
  [u EXCEPT
     !.call = EmptyCache.call,
     !.returned = [identity |-> u.call.identity, url |-> url,
                   requested |-> requested, prior |-> u.call.prior,
                   at |-> u.now],
     !.resolved[u.call.identity] =
        IF requested THEN [url |-> url, timestamp |-> u.now] ELSE @]

\* setCachedKeybaseImage called from loadKeybasePicture
WritePicture(u, url) ==
  LET id == u.call.identity
      full == setItem(u.storage, id, [url |-> url, timestamp |-> u.now]).threw
      kept == clearExpiredCacheEntries(u.storage, u.now)
  IN [u EXCEPT
        !.storage = setCachedKeybaseImage(u.storage, id, url, u.now),
        !.write = [identity |-> id, full |-> full,
                   freed |-> IF full
                               THEN Cardinality({k \in Identities :
                                      u.storage[k] # NoEntry /\ kept[k] = NoEntry})
                               ELSE 0]]

\* loadKeybasePicture(identity) up to its first await, or to its return
\* when the cache answers
LoadKeybasePicture(identity) ==
  /\ unit.fn = "cache"
  /\ unit.call.pc = "idle"
  /\ LET cached == getCachedKeybaseImage(unit.storage, identity, unit.now)
         started == [unit EXCEPT
                       !.storage = cached.storage,
                       !.call = [identity |-> identity, pc |-> "lookup",
                                 prior |-> unit.resolved[identity]]]
     IN unit' = IF cached.url # Null
                  THEN ReturnPicture([started EXCEPT !.call.pc = "cached"],
                                     IF cached.url = "" THEN Null ELSE cached.url,
                                     FALSE)
                  ELSE started
  /\ UNCHANGED << page, controlShown, txStatus, notice, subs >>

\* await fetch(lookupUrl) settles: with a picture, without one, or rejected
LookupSettles(answer) ==
  /\ unit.fn = "cache"
  /\ unit.call.pc = "lookup"
  /\ unit' =
       CASE answer = "picture" ->
              LET pictureUrl == "https://keybase.io/pictures/" \o unit.call.identity
              IN ReturnPicture(WritePicture(unit, pictureUrl), pictureUrl, TRUE)
         [] answer = "none" -> [unit EXCEPT !.call.pc = "image"]
         [] answer = "rejected" ->
              ReturnPicture(
                [unit EXCEPT !.storage =
                   setCachedKeybaseImageNotFound(@, unit.call.identity, unit.now)],
                Null, TRUE)
  /\ UNCHANGED << page, controlShown, txStatus, notice, subs >>

\* the Image of the direct URL loads or fails
ImageSettles(loaded) ==
  /\ unit.fn = "cache"
  /\ unit.call.pc = "image"
  /\ LET directUrl == "https://keybase.io/" \o unit.call.identity \o "/picture"
     IN unit' =
          IF loaded THEN ReturnPicture(WritePicture(unit, directUrl), directUrl, TRUE)
          ELSE ReturnPicture(
                 [unit EXCEPT !.storage =
                    setCachedKeybaseImageNotFound(@, unit.call.identity, unit.now)],
                 Null, TRUE)
  /\ UNCHANGED << page, controlShown, txStatus, notice, subs >>

\* four days pass
DaysPass ==
  /\ unit.fn = "cache"
  /\ unit.now < MaxClockSteps * 4 * 24 * 60 * 60 * 1000
  /\ unit' = [unit EXCEPT !.now = @ + 4 * 24 * 60 * 60 * 1000]
  /\ UNCHANGED << page, controlShown, txStatus, notice, subs >>

InitCache ==
  /\ page = "UnjailPage"
  /\ controlShown = TRUE
  /\ txStatus = IdleStatus
  /\ notice = [isVisible |-> TRUE, timer |-> FALSE, pending |-> 0]
  /\ subs = [s \in Slots |-> IdleSub]
  /\ unit = EmptyCache

NextCache ==
  \/ \E identity \in Identities : LoadKeybasePicture(identity)
  \/ \E answer \in {"picture", "none", "rejected"} : LookupSettles(answer)
  \/ \E loaded \in BOOLEAN : ImageSettles(loaded)
  \/ DaysPass

SpecCache == InitCache /\ [][NextCache]_vars

\* ---- properties of the functions ---------------------------------------------
\* the categories of a catch block whose marker the message contains
Matched(kind, errorMsg) ==
  {Categories(kind)[i] : i \in {j \in 1..Len(Categories(kind)) :
                                  CategoryMatches(Categories(kind)[j], errorMsg)}}

\* C14: the classifier tests its categories in the fixed order user rejection,
\* insufficient funds, action-specific conditions, unauthorized, transport
\* ambiguity, and throws the message of the first one that matches; an error
\* that matches none is thrown again unchanged.
C14_FirstCategoryWins ==
  (unit.fn = "classify" /\ unit.done) =>
    LET errorMsg == OrElse(unit.error.message, "Error")
        cats     == Categories(unit.kind)
        matched  == Matched(unit.kind, errorMsg)
        ClassRank(class) == CASE class = "rejection"    -> 1
                              [] class = "funds"        -> 2
                              [] class = "specific"     -> 3
                              [] class = "unauthorized" -> 4
    IN /\ \A i, j \in 1..Len(cats) :
            i < j => ClassRank(cats[i].class) <= ClassRank(cats[j].class)
       /\ IF matched # {}
            THEN \E c \in matched :
                   /\ \A d \in matched : ClassRank(c.class) <= ClassRank(d.class)
                   /\ unit.result = NewError(c.message)
          ELSE IF isRpcErrorMessage(errorMsg)
            THEN unit.result = NewError(buildRpcErrorMessage(unit.error, errorMsg))
          ELSE unit.result = unit.error

C14_Witness ==
  /\ unit.fn = "classify"
  /\ unit.done
  /\ unit.kind = "editValidator"
  /\ unit.error.message = "unauthorized: insufficient funds"
  /\ unit.result.message
       = "Insufficient balance. Please ensure you have enough INJ for transaction fees."

\* C15: an error with a transport marker and no earlier category is never
\* thrown as it came: the message thrown warns that the transaction may
\* already be signed and broadcast, and holds the transaction hash whenever
\* the error's message or fields hold one.
C15_TransportAmbiguityWarns ==
  LET errorMsg == OrElse(unit.error.message, "Error")
      hash     == IF Includes(unit.error.message, ChainHash)
                    THEN ChainHash ELSE unit.error.txHash
  IN (/\ unit.fn = "classify"
      /\ unit.done
      /\ isRpcErrorMessage(errorMsg)
      /\ Matched(unit.kind, errorMsg) = {})
       => /\ unit.result.message # unit.error.message
          /\ \/ Includes(unit.result.message, "Transaction signed and broadcast")
             \/ Includes(unit.result.message, "may have been signed")
          /\ hash # ""
               => \/ Includes(unit.result.message,
                              "Transaction hash: " \o hash \o ". ")
                  \/ Includes(unit.result.message,
                              "Transaction hash: 0x" \o hash \o ". ")

C15_Witness ==
  /\ unit.fn = "classify"
  /\ unit.done
  /\ unit.error.message = "RPC Error: timeout"
  /\ unit.error.txHash = "ABCD1234"
  /\ Includes(unit.result.message, "Transaction hash: ABCD1234")

\* C16: the EditValidator builder leaves commissionRate out of the message
\* whenever the new rate equals the current on-chain rate, both taken to 18
\* decimals, and puts the new ratio in whenever a rate is given that differs
\* from the current one (or no current rate is known).
C16_UnchangedRateOmitted ==
  (unit.fn = "edit" /\ unit.pc = "built" /\ unit.commissionRate \notin {<< >>, << "" >>})
    => LET ratio   == percentStringToDecimal(unit.commissionRate[1]).value
           current == IF unit.currentCommissionRate = << >>
                        THEN "" ELSE unit.currentCommissionRate[1]
           r       == SplitDot(ratio, 1, 1)
           c       == SplitDot(current, 1, 1)
           cfrac   == SubSeq((IF Len(c) = 2 THEN c[2] ELSE "") \o Zeros(18), 1, 18)
           same    == /\ current # ""
                      /\ BigInt(c[1]) = BigInt(r[1])
                      /\ cfrac = r[2]
       IN IF same THEN unit.message.commissionRate = << >>
          ELSE unit.message.commissionRate = << ratio >>

C16_Witness ==
  /\ unit.fn = "edit"
  /\ unit.pc = "built"
  /\ unit.commissionRate = << "10" >>
  /\ unit.currentCommissionRate = << "0.1" >>
  /\ unit.message.commissionRate = << >>

\* C17: the EditValidator encoder writes field 3 only when the message has a
\* commission rate, and then with the rate's non-empty digits; when the rate
\* is absent no field 3 is written at all.
C17_RateFieldOnlyWhenPresent ==
  (unit.fn = "edit" /\ unit.pc = "encoded")
    => LET third == {i \in 1..Len(unit.wire) : unit.wire[i].field = 3}
       IN IF unit.message.commissionRate \in {<< >>, << "" >>}
            THEN third = {}
          ELSE /\ Cardinality(third) = 1
               /\ \A i \in third : unit.wire[i].value # ""

C17_Witness ==
  /\ unit.fn = "edit"
  /\ unit.pc = "encoded"
  /\ unit.commissionRate = << "10" >>
  /\ unit.message.commissionRate = << >>
  /\ \A i \in 1..Len(unit.wire) : unit.wire[i].field # 3

\* C18: the signer has exactly one encoder for each of six message types, and
\* every message a transaction function hands to signAndBroadcast finds
\* exactly one encoder registered for its type.
C18_EveryMessageHasEncoder ==
  /\ Len(stakingEncoders) = 6
  /\ \A i, j \in 1..Len(stakingEncoders) :
       stakingEncoders[i] = stakingEncoders[j] => i = j
  /\ (unit.fn = "sign" /\ unit.done) => unit.encoders = 1

C18_Witness ==
  /\ unit.fn = "sign"
  /\ unit.done
  /\ unit.service = "legacy"
  /\ unit.kind = "registerOrchestrator"
  /\ unit.encoders = 0

\* C19: percentStringToDecimal throws for every input that is empty or blank,
\* that holds (between its surrounding blanks) a character other than a digit
\* or a point, or that holds more than one point.
C19_RejectsMalformed ==
  (unit.fn = "percent" /\ unit.done) =>
    LET v    == Trim(unit.value)
        dots == {i \in 1..Len(v) : CharAt(v, i) = "."}
    IN (\/ v = ""
        \/ \E i \in 1..Len(v) : CharAt(v, i) \notin DigitChars \cup {"."}
        \/ Cardinality(dots) > 1)
         => unit.result.threw

C19_Witness ==
  /\ unit.fn = "percent"
  /\ unit.done
  /\ unit.value = "1.2.3"
  /\ unit.result = [threw |-> FALSE, value |-> "0.012000000000000000"]

\* a percentage in [0,100] written as digits with at most one point
ValidPercent(value) ==
  LET v     == Trim(value)
      parts == SplitDot(v, 1, 1)
      int   == BigInt(parts[1])
      frac  == IF Len(parts) = 2 THEN parts[2] ELSE ""
  IN /\ Len(parts) <= 2
     /\ AllDigits(parts[1])
     /\ frac = "" \/ AllDigits(frac)
     /\ \/ Len(int) <= 2
        \/ int = "100" /\ frac = Zeros(Len(frac))

\* ratio * 100 has the value of the percentage cut after `kept` fractional
\* digits: the integer parts agree and so do the fractions, filled with
\* zeros to one length
HundredfoldIs(ratio, value, kept) ==
  LET r      == SplitDot(ratio, 1, 1)
      parts  == SplitDot(Trim(value), 1, 1)
      all    == IF Len(parts) = 2 THEN parts[2] ELSE ""
      frac   == IF Len(all) > kept THEN SubSeq(all, 1, kept) ELSE all
      rfrac  == SubSeq(r[2], 3, Len(r[2]))
      width  == IF Len(frac) > Len(rfrac) THEN Len(frac) ELSE Len(rfrac)
  IN /\ BigInt(r[1] \o SubSeq(r[2], 1, 2)) = BigInt(parts[1])
     /\ rfrac \o Zeros(width - Len(rfrac)) = frac \o Zeros(width - Len(frac))

\* C20 as stated: for every valid percentage in [0,100] the ratio has 18
\* fractional digits and is exactly the percentage divided by 100, so that a
\* hundred times the ratio is the percentage again.
C20_ExactRatio ==
  (unit.fn = "percent" /\ unit.done /\ ValidPercent(unit.value)) =>
    /\ ~unit.result.threw
    /\ Len(SplitDot(unit.result.value, 1, 1)[2]) = 18
    /\ HundredfoldIs(unit.result.value, unit.value, Len(unit.value))

\* C20: for every valid percentage in [0,100] the ratio has 18 fractional
\* digits and is the percentage divided by 100 and cut after the 18th
\* fractional digit: a hundred times the ratio is the percentage cut after its
\* 16th fractional digit, the percentage itself when it has no more than 16.
C20_RatioTruncatedAt18 ==
  (unit.fn = "percent" /\ unit.done /\ ValidPercent(unit.value)) =>
    /\ ~unit.result.threw
    /\ Len(SplitDot(unit.result.value, 1, 1)[2]) = 18
    /\ HundredfoldIs(unit.result.value, unit.value, 16)

C20_Witness ==
  /\ unit.fn = "percent"
  /\ unit.done
  /\ unit.value = "33.333333333333333333"
  /\ unit.result = [threw |-> FALSE, value |-> "0.333333333333333333"]

\* C21: every commission rate a builder puts in a message (rate, maxRate,
\* maxChangeRate of a created validator, commissionRate of an edited one) is a
\* decimal string with exactly 18 fractional digits and a value in [0,1].
C21_RatesAreRatios ==
  LET isRatio(r) ==
        LET p == SplitDot(r, 1, 1)
        IN /\ Len(p) = 2
           /\ AllDigits(p[1]) /\ AllDigits(p[2]) /\ Len(p[2]) = 18
           /\ \/ p[1] = "0"
              \/ p[1] = "1" /\ p[2] = Zeros(18)
  IN /\ (unit.fn = "create" /\ unit.done /\ unit.message.error = "")
         => /\ isRatio(unit.message.rate)
            /\ isRatio(unit.message.maxRate)
            /\ isRatio(unit.message.maxChangeRate)
     /\ (unit.fn = "edit" /\ unit.pc = "built"
          /\ ~editValidatorMessage(unit.commissionRate,
                                   unit.currentCommissionRate).threw
          /\ unit.message.commissionRate # << >>)
         => isRatio(unit.message.commissionRate[1])

C21_Witness ==
  /\ unit.fn = "create"
  /\ unit.done
  /\ unit.data.commissionRate = "150"
  /\ unit.message.error = ""
  /\ unit.message.rate = "1.500000000000000000"

\* C22: the CreateValidator builder accepts a consensus pubkey exactly when
\* its base64 text decodes to 32 bytes; a key of 31 or 33 bytes, or one that
\* does not decode, is refused with the pubkey error and no message is built.
C22_PubkeyOf32Bytes ==
  (unit.fn = "create" /\ unit.done) =>
    LET bytes == CASE unit.data.consensusPubkey
                        = "AAAAAAAAAAAAAAAAAAAAAAAAAAAAAAAAAAAAAAAAAA==" -> 31
                   [] unit.data.consensusPubkey = Pubkey32 -> 32
                   [] unit.data.consensusPubkey
                        = "AAAAAAAAAAAAAAAAAAAAAAAAAAAAAAAAAAAAAAAAAAA" -> 32
                   [] unit.data.consensusPubkey = Pubkey33 -> 33
                   [] OTHER -> -1
        pubkeyError ==
          "Failed to decode consensus pubkey. Please ensure it is valid base64-encoded ed25519 key."
    IN IF bytes = 32 THEN unit.message.error # pubkeyError
       ELSE unit.message = [error |-> pubkeyError]

C22_Witness ==
  /\ unit.fn = "create"
  /\ unit.done
  /\ unit.data.consensusPubkey = Pubkey33
  /\ unit.data.commissionRate = "10.5"
  /\ unit.data.selfDelegation = "2.5"
  /\ Includes(unit.message.error, "Failed to decode consensus pubkey")

\* C23: for every positive amount the builder accepts, the Coin amount of
\* the message is a digits-only integer string, the amount times 10^18 cut
\* toward zero.
C23_AmountInBaseUnits ==
  (unit.fn = "create" /\ unit.done /\ unit.message.error = "") =>
    LET p    == SplitDot(unit.data.selfDelegation, 1, 1)
        frac == IF Len(p) = 2 THEN p[2] ELSE ""
    IN /\ AllDigits(unit.message.amount)
       /\ unit.message.amount = BigInt(p[1] \o SubSeq(frac \o Zeros(18), 1, 18))

C23_Witness ==
  /\ unit.fn = "create"
  /\ unit.done
  /\ unit.data.selfDelegation = "1000"
  /\ unit.message.error = ""
  /\ unit.message.amount = "1e+21"

\* C24: the SetOrchestratorAddresses builder never reaches signing with an
\* ethereumAddress that is not 0x and 40 hex digits, or an orchestratorAddress
\* that is not a bech32 address with the prefix inj: it throws instead.
C24_BadAddressesNeverSigned ==
  (unit.fn = "orchestrator" /\ unit.pc = "signing") =>
    /\ isValidEthereumAddress(unit.data.ethereumAddress)
    /\ isValidBech32Address(unit.data.orchestratorAddress, "inj")

C24_Witness ==
  /\ unit.fn = "orchestrator"
  /\ unit.service = "current"
  /\ unit.pc = "signing"
  /\ unit.data.ethereumAddress = "0x123"
  /\ unit.data.orchestratorAddress = "cosmos1qqqqqqqqqqqqqqqqqqqqqqqqqqqqqqqqnrql8a"
  /\ unit.message[1].ethAddress = "0x123"

\* C25: a display amount with at most displayDecimals fractional digits,
\* converted to base units and shown by formatTokenAmount with 18 decimals,
\* is shown as it was typed.
C25_RoundTrip ==
  LET p == SplitDot(unit.display, 1, 1)
      fractionDigits == IF Len(p) = 2 THEN Len(p[2]) ELSE 0
  IN (unit.fn = "format" /\ unit.pc = "shown"
      /\ fractionDigits <= unit.displayDecimals)
       => /\ ~unit.shown.threw
          /\ unit.shown.text = unit.display

C25_Witness ==
  /\ unit.fn = "format"
  /\ unit.pc = "shown"
  /\ unit.display = "1.05"
  /\ unit.displayDecimals = 4
  /\ unit.base = "1050000000000000000"
  /\ unit.shown.text = "1.5"

\* C26: the result of a submission in flight turns the page's outcome into
\* success or error only while the outcome is pending; an outcome that was
\* reset to idle by a dismissal is not overwritten by that result.
C26_ResultOnlyOverPending ==
  [][\A s \in Slots :
       ( /\ InFlight(s)
         /\ subs'[s] # subs[s]
         /\ txStatus' # txStatus
         /\ txStatus'.status \in {"success", "error"} )
       => txStatus.status = "pending"]_vars

C26_Witness ==
  /\ page = "UnjailPage"
  /\ txStatus.status = "idle"
  /\ \E s \in Slots : subs[s].pc = "wait" /\ subs[s].hash # ""

\* C28: when the reload that follows a success fails, the submission stays a
\* success and the page's outcome is left as it is: a success outcome is not
\* replaced, and no error outcome appears.
C28_RefreshFailureKeepsSuccess ==
  [][\A s \in Slots :
       (subs[s].pc = "refresh" /\ subs'[s].failedAt = "refresh")
       => /\ subs'[s].outcome = "success"
          /\ txStatus.status = "success" => txStatus' = txStatus
          /\ txStatus'.status = "error" => txStatus' = txStatus]_vars

C28_Witness ==
  \E s \in Slots :
    /\ subs[s].pc = "done"
    /\ subs[s].failedAt = "refresh"
    /\ txStatus.status = "success"
    /\ txStatus.hash = subs[s].hash

\* C27: on the delegation page no delegate and undelegate are in flight at
\* once, and while the outcome of either is pending neither form takes a
\* submission.
C27_OneTransactionAtATime ==
  unit.fn = "page" =>
    /\ ~(unit.pc.delegate = "transaction" /\ unit.pc.undelegate = "transaction")
    /\ (\E k \in Kinds(page) : unit.status[k].status = "pending")
         => \A k \in Kinds(page) : ~ENABLED HandleSubmit(k)

C27_Witness ==
  /\ unit.fn = "page"
  /\ unit.pc.delegate = "transaction"
  /\ unit.pc.undelegate = "transaction"
  /\ unit.status.delegate.status = "pending"
  /\ unit.status.undelegate.status = "pending"

\* C29: a call of loadKeybasePicture that returns within the expiry of an
\* earlier resolution for the same identity returns what that resolution
\* returned, and issues no network request.
C29_ResolvedOnceServedFromCache ==
  (unit.fn = "cache"
   /\ unit.returned.identity # ""
   /\ unit.returned.prior # NoEntry
   /\ unit.returned.at - unit.returned.prior.timestamp <= CACHE_EXPIRY_MS)
    => /\ ~unit.returned.requested
       /\ unit.returned.url = unit.returned.prior.url

C29_Witness ==
  /\ unit.fn = "cache"
  /\ unit.returned.identity = "id3"
  /\ unit.returned.prior # NoEntry
  /\ unit.returned.at = unit.returned.prior.timestamp
  /\ unit.returned.requested
  /\ unit.returned.url # unit.returned.prior.url

\* C30: when the write of a picture URL finds the storage full and the purge
\* of the expired entries frees room, the entry is stored by the second write.
C30_StoredAfterPurge ==
  (unit.fn = "cache" /\ unit.call.pc = "idle"
   /\ unit.write.full /\ unit.write.freed > 0
   /\ unit.returned.identity = unit.write.identity
   /\ unit.returned.requested)
    => unit.storage[unit.write.identity]
         = [url |-> unit.returned.url, timestamp |-> unit.returned.at]

C30_Witness ==
  /\ unit.fn = "cache"
  /\ unit.call.pc = "idle"
  /\ unit.write.identity = "id3"
  /\ unit.write.full
  /\ unit.write.freed = 2
  /\ unit.returned.identity = "id3"
  /\ unit.storage = [k \in Identities |-> NoEntry]
====
